---- MODULE Spec2Model ----
(***************************************************************************)
(* Client status and risk classification of the tax document collection    *)
(* workflow: src/gateway/tools/status_tracker/status_tracker_lambda.py,    *)
(* and the document classification of                                      *)
(* src/gateway/tools/document_checker/document_checker_lambda.py.          *)
(*                                                                         *)
(* Time is counted in ticks, TicksPerDay ticks to a day; a stored ISO      *)
(* timestamp is the tick it was written at.  A DynamoDB item is a function *)
(* from the attribute names it carries to their values, so dict.get(k, d)  *)
(* is Get(item, k, d).  Python's None is None.                             *)
(***************************************************************************)
EXTENDS Integers, Sequences, FiniteSets, TLC

VARIABLES
    clients_table,     \* CLIENTS_TABLE: the client items, in storage order
    documents_table,   \* DOCUMENTS_TABLE: client_id -> rows in sort-key order
    followup_table,    \* FOLLOWUP_TABLE: client_id -> events, ascending followup_id
    now,               \* the clock datetime.utcnow() reads, in ticks
    event,             \* the last event given to lambda_handler
    response,          \* what lambda_handler returned for it
    doc_status,        \* the last result of get_client_documents
    risk_in,           \* arguments of the last risk computation
    risk_out,          \* its results
    page_limit,        \* rows the store puts in one page of a query result
    unavailable,       \* the reads the store answers with a ClientError
    clock_step,        \* ticks between two utcnow() readings of one computation
    followup_history,  \* the last result of get_followup_history
    client_status,     \* the last result of build_client_status
    upload,            \* the arguments of the last classify_document call
    classified_as,     \* what it returned
    epoch_second,      \* int(datetime.utcnow().timestamp()) of the clock
    sends,             \* the events the email sender reported as logged, in order
    batch,             \* the batch request in progress: futures, results, response
    bucket             \* CLIENT_BUCKET: the objects, key -> Metadata

vars == <<clients_table, documents_table, followup_table, now, event,
          response, doc_status, risk_in, risk_out, page_limit, unavailable,
          clock_step, followup_history, client_status, upload, classified_as,
          epoch_second, sends, batch, bucket>>

\* the state of the services around the status tracker
service_vars == <<epoch_second, sends, batch, bucket>>

-----------------------------------------------------------------------------
(* Bounds of the model *)

MaxDocTypes == 3      \* document types a client's rows are drawn from
TicksPerDay == 2      \* clock resolution: ticks per day
MaxTick == 6          \* latest clock reading
MaxCount == 4         \* largest followup_count given to the classifier
MaxThreshold == 4     \* largest escalation_threshold setting
MaxEscDays == 3       \* largest escalation_days setting

-----------------------------------------------------------------------------
(* Values *)

None == [tag |-> "None"]
Some(n) == [tag |-> "int", v |-> n]
\* datetime.isoformat() of the instant at tick t; fromisoformat reads t back
Iso(t) == [tag |-> "iso", t |-> t]
\* a non-empty string that datetime.fromisoformat rejects
Malformed == [tag |-> "str"]
\* an exception leaving a function
Raise(type, msg) == [tag |-> "raise", type |-> type, msg |-> msg]
RaiseValueError == "raise ValueError"

Get(item, key, default) == IF key \in DOMAIN item THEN item[key] ELSE default

Min(a, b) == IF a <= b THEN a ELSE b
Max(a, b) == IF a >= b THEN a ELSE b

\* document types in sort-key order
DocTypeNames == <<"1099-INT", "Schedule K-1", "W-2", "W-2G", "W-9">>
DocTypes == {DocTypeNames[i] : i \in 1..MaxDocTypes}

\* the rows the writers of DOCUMENTS_TABLE can leave for one document type:
\* add_document_requirement writes required and received, the upserts of the
\* document processor and of update_document_requirement write the
\* attributes they are given
RowsOf(dt) ==
    {[document_type |-> dt, required |-> r, received |-> v] : r, v \in BOOLEAN}
    \cup {[document_type |-> dt, received |-> v] : v \in BOOLEAN}
    \cup {[document_type |-> dt, required |-> r] : r \in BOOLEAN}
    \cup {[document_type |-> dt]}

RECURSIVE RowSeqs(_)
\* every list of rows over the first n document types, ascending by type
RowSeqs(n) ==
    IF n = 0 THEN {<<>>}
    ELSE LET shorter == RowSeqs(n - 1)
         IN  shorter \cup {Append(s, r) : s \in shorter, r \in RowsOf(DocTypeNames[n])}

-----------------------------------------------------------------------------
(* get_client_documents *)

\* one table.query call: the page of rows behind ExclusiveStartKey, and the
\* LastEvaluatedKey the store adds when rows remain
query_page(client_id, start) ==
    LET rows == IF client_id \in DOMAIN documents_table
                THEN documents_table[client_id] ELSE <<>>
        last == Min(Len(rows), start + page_limit)
    IN  [Items |-> SubSeq(rows, start + 1, last),
         LastEvaluatedKey |-> IF last < Len(rows) THEN Some(last) ELSE None]

\* line 54-57: table.query(KeyConditionExpression=...).get('Items', []), one
\* call, LastEvaluatedKey not looked at
documents_query(client_id) == query_page(client_id, 0).Items

RECURSIVE query_all_pages(_, _)
\* lines 203-221: the loop that queries until no LastEvaluatedKey comes back
query_all_pages(client_id, start) ==
    LET page == query_page(client_id, start)
    IN  IF page.LastEvaluatedKey = None THEN page.Items
        ELSE page.Items \o query_all_pages(client_id, page.LastEvaluatedKey.v)

required_docs(documents) ==
    SelectSeq(documents, LAMBDA d : Get(d, "required", FALSE))

\* counts every received row, required or not
received_docs_any(documents) ==
    SelectSeq(documents, LAMBDA d : Get(d, "received", FALSE))

received_required_docs(documents) ==
    SelectSeq(required_docs(documents), LAMBDA d : Get(d, "received", FALSE))

\* round() in the place of int()
rounded_pct(total_received, total_required) ==
    (200 * total_received + total_required) \div (2 * total_required)

\* int((total_received / total_required) * 100): int() truncates toward zero.
\* The float product equals the exact quotient's integer part for every
\* total_required below 50 (29 of 50 is the first pair where it does not).
truncated_pct(total_received, total_required) ==
    (total_received * 100) \div total_required

\* lines 65-68: 0 when nothing is required, then min(completion_pct, 100)
capped_completion_pct(total_received, total_required) ==
    Min(IF total_required > 0
        THEN truncated_pct(total_received, total_required)
        ELSE 0, 100)

missing_documents_of(documents) ==
    LET missing == SelectSeq(required_docs(documents),
                             LAMBDA d : ~Get(d, "received", FALSE))
    IN  [i \in 1..Len(missing) |-> missing[i]["document_type"]]

doc_status_of(documents) ==
    [total_required |-> Len(required_docs(documents)),
     total_received |-> Len(received_required_docs(documents)),
     completion_percentage |->
         capped_completion_pct(Len(received_required_docs(documents)),
                        Len(required_docs(documents))),
     missing_documents |-> missing_documents_of(documents)]

\* lines 78-80: what the except ClientError branch returns
documents_error_default ==
    [total_required |-> 0, total_received |-> 0, completion_percentage |-> 0,
     missing_documents |-> <<>>]

\* the try block alone, as if the query could not raise
get_client_documents_no_except(client_id) ==
    doc_status_of(documents_query(client_id))

get_client_documents(client_id) ==
    IF "documents" \in unavailable THEN documents_error_default
    ELSE doc_status_of(documents_query(client_id))

-----------------------------------------------------------------------------
(* calculate_risk_status, calculate_days_until_escalation *)

DefaultEscalationThreshold == 3
DefaultEscalationDays == 2

\* Python truthiness of an Optional[str]
Truthy(date) == date # None

\* (a - b).days of two datetimes: timedelta.days is the floor of the quotient
timedelta_days(ticks) == ticks \div TicksPerDay

\* the follow-up checks first, completion looked at last
risk_status_followups_first(completion_pct, followup_count, last_followup_date, settings, utcnow) ==
    LET escalation_threshold ==
            Get(settings, "escalation_threshold", DefaultEscalationThreshold)
        escalation_days ==
            Get(settings, "escalation_days", DefaultEscalationDays)
    IN  IF followup_count >= escalation_threshold
        THEN IF Truthy(last_followup_date) /\ last_followup_date # Malformed
                /\ timedelta_days(utcnow - last_followup_date.t) >= escalation_days
             THEN "escalated"
             ELSE "at_risk"
        ELSE IF followup_count >= escalation_threshold - 1 THEN "at_risk"
        ELSE IF completion_pct = 100 THEN "complete"
        ELSE "incomplete"

\* escalates only after more than escalation_days days
risk_status_strict_days(completion_pct, followup_count, last_followup_date, settings, utcnow) ==
    LET escalation_threshold ==
            Get(settings, "escalation_threshold", DefaultEscalationThreshold)
        escalation_days ==
            Get(settings, "escalation_days", DefaultEscalationDays)
    IN  IF completion_pct = 100 THEN "complete"
        ELSE IF followup_count >= escalation_threshold
        THEN IF Truthy(last_followup_date) /\ last_followup_date # Malformed
                /\ timedelta_days(utcnow - last_followup_date.t) > escalation_days
             THEN "escalated"
             ELSE "at_risk"
        ELSE IF followup_count >= escalation_threshold - 1 THEN "at_risk"
        ELSE "incomplete"

calculate_risk_status(completion_pct, followup_count, last_followup_date, settings, utcnow) ==
    IF completion_pct = 100 THEN "complete"
    ELSE
      LET escalation_threshold ==
              Get(settings, "escalation_threshold", DefaultEscalationThreshold)
          escalation_days ==
              Get(settings, "escalation_days", DefaultEscalationDays)
      IN  IF followup_count >= escalation_threshold
          THEN IF Truthy(last_followup_date)
               THEN IF last_followup_date = Malformed
                    THEN RaiseValueError   \* datetime.fromisoformat raises
                    ELSE IF timedelta_days(utcnow - last_followup_date.t)
                              >= escalation_days
                         THEN "escalated"
                         ELSE "at_risk"
               ELSE "at_risk"
          ELSE IF followup_count >= escalation_threshold - 1
               THEN "at_risk"
               ELSE "incomplete"

calculate_days_until_escalation(followup_count, last_followup_date, settings, utcnow) ==
    LET escalation_threshold ==
            Get(settings, "escalation_threshold", DefaultEscalationThreshold)
        escalation_days ==
            Get(settings, "escalation_days", DefaultEscalationDays)
    IN  IF followup_count < escalation_threshold THEN None
        ELSE IF ~Truthy(last_followup_date) THEN Some(0)
        ELSE IF last_followup_date = Malformed
             THEN Raise("ValueError", "Invalid isoformat string")
             ELSE LET escalation_date ==
                          last_followup_date.t + escalation_days * TicksPerDay
                      days_until == timedelta_days(escalation_date - utcnow)
                  IN  Some(Max(0, days_until))

-----------------------------------------------------------------------------
(* get_all_clients, get_followup_history, determine_next_action *)

FollowupLimit == 10

\* table.query(IndexName='accountant-index', ...).get('Items', [])
get_all_clients(accountant_id) ==
    SelectSeq(clients_table, LAMBDA c : c.accountant_id = accountant_id)

\* table.get_item(Key={'client_id': client_id}): the items with that key
get_item(client_id) ==
    SelectSeq(clients_table, LAMBDA c : c.client_id = client_id)

Reverse(s) == [i \in 1..Len(s) |-> s[Len(s) + 1 - i]]

\* query(ScanIndexForward=False, Limit=10): the newest events, newest first
followup_query(client_id) ==
    LET events == IF client_id \in DOMAIN followup_table
                  THEN followup_table[client_id] ELSE <<>>
        newest == Reverse(events)
    IN  SubSeq(newest, 1, Min(Len(newest), FollowupLimit))

\* lines 96-101 and 110-112: the dictionary returned for no event and from
\* the except ClientError branch
no_followups ==
    [followup_count |-> 0,
     last_followup |-> None,
     last_followup_date |-> None,
     next_followup_date |-> None]

get_followup_history(client_id) ==
    LET followups == followup_query(client_id)
    IN  IF "followups" \in unavailable THEN no_followups
        ELSE IF followups = <<>> THEN no_followups
        ELSE LET last_followup == followups[1]
             IN  [followup_count |-> Len(followups),
                  last_followup |-> Get(last_followup, "followup_number", Some(0)),
                  last_followup_date |-> Get(last_followup, "sent_date", None),
                  next_followup_date |-> Get(last_followup, "next_followup_date", None),
                  response_received |-> Get(last_followup, "response_received", FALSE)]

\* next_followup_date[:10]: the date part of an ISO timestamp
date_part(date) ==
    IF date = Malformed THEN date
    ELSE [tag |-> "date", day |-> date.t \div TicksPerDay]

\* the reminder numbered with the count of those sent, not the next one
next_action_numbered_by_count(status, followup_count, next_followup_date) ==
    IF status = "complete"
    THEN [text |-> "No action needed - all documents received"]
    ELSE IF status = "escalated"
    THEN [text |-> "Requires accountant intervention - call client directly"]
    ELSE IF Truthy(next_followup_date)
    THEN [text |-> "Send reminder #n on date",
          n |-> followup_count, date |-> date_part(next_followup_date)]
    ELSE IF status = "at_risk"
    THEN [text |-> "Send reminder #n immediately", n |-> followup_count]
    ELSE [text |-> "Send initial document request"]

determine_next_action(status, followup_count, next_followup_date) ==
    IF status = "complete"
    THEN [text |-> "No action needed - all documents received"]
    ELSE IF status = "escalated"
    THEN [text |-> "Requires accountant intervention - call client directly"]
    ELSE IF status = "at_risk"
    THEN IF Truthy(next_followup_date)
         THEN [text |-> "Send reminder #n on date",
               n |-> followup_count + 1, date |-> date_part(next_followup_date)]
         ELSE [text |-> "Send reminder #n immediately", n |-> followup_count + 1]
    ELSE IF Truthy(next_followup_date)
         THEN [text |-> "Send reminder #n on date",
               n |-> followup_count + 1, date |-> date_part(next_followup_date)]
         ELSE [text |-> "Send initial document request"]

-----------------------------------------------------------------------------
(* build_client_status *)

\* lines 231-250: every row of the client, sorted by (not required, not
\* received, type); the rows arrive ascending by type, the sort is stable
all_docs_of(all_items) ==
    LET docs == [i \in 1..Len(all_items) |->
                    [type |-> all_items[i]["document_type"],
                     received |-> Get(all_items[i], "received", FALSE),
                     required |-> Get(all_items[i], "required", FALSE)]]
    IN  SelectSeq(docs, LAMBDA x : x.required /\ x.received)
        \o SelectSeq(docs, LAMBDA x : x.required /\ ~x.received)
        \o SelectSeq(docs, LAMBDA x : ~x.required /\ x.received)
        \o SelectSeq(docs, LAMBDA x : ~x.required /\ ~x.received)

IsRaise(x) == "tag" \in DOMAIN x /\ x.tag = "raise"

\* lines 197-258: the rows of every page, [] when a query raises
all_docs_query(client_id) ==
    IF "all_documents" \in unavailable THEN <<>>
    ELSE query_all_pages(client_id, 0)

\* utcnow is the clock calculate_risk_status reads; the reading of
\* calculate_days_until_escalation comes clock_step ticks later
build_client_status(client, settings, utcnow) ==
    LET client_id == client.client_id
        doc_st == get_client_documents(client_id)
        followup_status == get_followup_history(client_id)
        status == calculate_risk_status(doc_st.completion_percentage,
                                        followup_status.followup_count,
                                        followup_status.last_followup_date,
                                        settings, utcnow)
        days_until_escalation ==
            calculate_days_until_escalation(followup_status.followup_count,
                                            followup_status.last_followup_date,
                                            settings, utcnow + clock_step)
    IN  IF status = RaiseValueError
        THEN Raise("ValueError", "Invalid isoformat string")
        ELSE IF IsRaise(days_until_escalation) THEN days_until_escalation
        ELSE [client_id |-> client_id,
              status |-> status,
              completion_percentage |-> doc_st.completion_percentage,
              total_required |-> doc_st.total_required,
              total_received |-> doc_st.total_received,
              missing_documents |-> doc_st.missing_documents,
              required_documents |-> all_docs_of(all_docs_query(client_id)),
              followup_count |-> followup_status.followup_count,
              last_followup |-> followup_status.last_followup,
              last_followup_date |-> followup_status.last_followup_date,
              next_followup_date |-> followup_status.next_followup_date,
              days_until_escalation |-> days_until_escalation,
              next_action |-> determine_next_action(
                                  status, followup_status.followup_count,
                                  followup_status.next_followup_date)]

-----------------------------------------------------------------------------
(* lambda_handler *)

\* priority_order.get(x['status'], 4)
priority_order(status) ==
    CASE status = "escalated" -> 0
      [] status = "at_risk" -> 1
      [] status = "incomplete" -> 2
      [] status = "complete" -> 3
      [] OTHER -> 4

\* x goes in front of the elements with its own key
insert_before_ties(sorted, x) ==
    LET keep == {i \in 1..Len(sorted) :
                    priority_order(sorted[i].status) < priority_order(x.status)}
        k == Cardinality(keep)
    IN  SubSeq(sorted, 1, k) \o <<x>> \o SubSeq(sorted, k + 1, Len(sorted))

\* x goes behind every element whose key is not larger than its own
insert_by_priority(sorted, x) ==
    LET keep == {i \in 1..Len(sorted) :
                    priority_order(sorted[i].status) <= priority_order(x.status)}
        k == Cardinality(keep)
    IN  SubSeq(sorted, 1, k) \o <<x>> \o SubSeq(sorted, k + 1, Len(sorted))

RECURSIVE sort_by_priority(_)
\* list.sort(key=...): a stable sort, here by insertion from the left
sort_by_priority(statuses) ==
    IF statuses = <<>> THEN <<>>
    ELSE insert_by_priority(
             sort_by_priority(SubSeq(statuses, 1, Len(statuses) - 1)),
             statuses[Len(statuses)])

\* a client at risk counted as incomplete too
count_status_overlapping(client_statuses, status) ==
    Len(SelectSeq(client_statuses,
                  LAMBDA c : \/ c.status = status
                             \/ (status = "incomplete" /\ c.status = "at_risk")))

count_status(client_statuses, status) ==
    Len(SelectSeq(client_statuses, LAMBDA c : c.status = status))

\* lines 350-356
summary_of(client_statuses) ==
    [total_clients |-> Len(client_statuses),
     complete |-> count_status(client_statuses, "complete"),
     incomplete |-> count_status(client_statuses, "incomplete"),
     at_risk |-> count_status(client_statuses, "at_risk"),
     escalated |-> count_status(client_statuses, "escalated")]

\* lines 344-348: the status of each client, kept when the filter admits it
filtered_statuses(built, status_filter) ==
    SelectSeq(built, LAMBDA c : status_filter = "all" \/ c.status = status_filter)

\* lines 370-385 and 390-411: the two shapes of a return value
wrap(ev, code, data) ==
    IF ev.is_api_gateway THEN [statusCode |-> code, body |-> data]
    ELSE [content |-> data]

error_response(ev, type, msg) ==
    wrap(ev, 500, [error |-> msg, error_type |-> type])

\* an unknown client gives no clients
clients_or_none(accountant_id, client_id) ==
    IF client_id = "all"
    THEN [tag |-> "ok", items |-> get_all_clients(accountant_id)]
    ELSE [tag |-> "ok", items |-> get_item(client_id)]

\* lines 332-342: the clients of the request, or the exception raised
clients_of_request(accountant_id, client_id) ==
    IF "clients" \in unavailable
    THEN Raise("ClientError", "An error occurred when calling the operation")
    ELSE IF client_id = "all"
    THEN [tag |-> "ok", items |-> get_all_clients(accountant_id)]
    ELSE IF get_item(client_id) = <<>>
         THEN Raise("ValueError", "Client not found")
         ELSE [tag |-> "ok", items |-> get_item(client_id)]

lambda_handler(ev, utcnow) ==
    LET accountant_id == ev.accountant_id
        client_id == Get(ev, "client_id", "all")
        status_filter == Get(ev, "filter", "all")
        settings == [escalation_threshold |-> 3, escalation_days |-> 2]
    IN  IF accountant_id = ""
        THEN error_response(ev, "ValueError",
                 IF ev.is_api_gateway
                 THEN "Unable to determine accountant ID from authentication token"
                 ELSE "Missing required parameter: accountant_id")
        ELSE
          LET clients == clients_of_request(accountant_id, client_id)
          IN  IF IsRaise(clients)
              THEN error_response(ev, clients.type, clients.msg)
              ELSE
                LET built == [i \in 1..Len(clients.items) |->
                                 build_client_status(clients.items[i], settings,
                                                     utcnow)]
                    raised == {i \in 1..Len(built) : IsRaise(built[i])}
                IN  IF raised # {}
                    THEN LET first == CHOOSE i \in raised : \A j \in raised : i <= j
                         IN  error_response(ev, built[first].type, built[first].msg)
                    ELSE
                      LET client_statuses == filtered_statuses(built, status_filter)
                      IN  wrap(ev, 200,
                               [summary |-> summary_of(client_statuses),
                                clients |-> sort_by_priority(client_statuses),
                                generated_at |-> Iso(utcnow)])

-----------------------------------------------------------------------------
(* The roster: lambda_handler over a client store *)

NumClients == 3

ClientNames == <<"client_1", "client_2", "client_3", "client_4", "client_5">>
ClientIds == {ClientNames[i] : i \in 1..NumClients}
Accountants == {"acct_A", "acct_B"}
StatusFilters == {"all", "complete", "incomplete", "at_risk", "escalated"}

Unset == [tag |-> "unset"]

\* an empty bucket
NoObjects == [k \in {} |-> <<>>]

\* no other service has run
ServicesIdle ==
    /\ epoch_second = 0
    /\ sends = <<>>
    /\ batch = Unset
    /\ bucket = NoObjects
NoTable == [c \in {} |-> <<>>]

\* what log_followup of the email sender writes, as far as the tracker reads it
followup_event(id, number, sent) ==
    [followup_id |-> id,
     followup_number |-> Some(number),
     sent_date |-> Iso(sent),
     next_followup_date |-> Iso(sent + 7 * TicksPerDay),
     response_received |-> FALSE]

\* k reminders, all sent at tick `sent`
LogOf(k, sent) == [i \in 1..k |-> followup_event(i, i, sent)]

\* one required row, received or not
RosterDocs ==
    {<<[document_type |-> DocTypeNames[1], required |-> TRUE, received |-> v]>> :
        v \in BOOLEAN}

\* no reminder, two reminders, three reminders sent long ago or just now
RosterLogs == {<<>>, LogOf(2, MaxTick), LogOf(3, 0), LogOf(3, MaxTick)}

RosterClients ==
    {[i \in 1..NumClients |->
         [client_id |-> ClientNames[i],
          accountant_id |-> IF i < NumClients THEN "acct_A" ELSE a]] :
     a \in Accountants}

Events ==
    [is_api_gateway : BOOLEAN,
     accountant_id : Accountants \cup {""},
     client_id : ClientIds \cup {"all", "client_unknown"},
     filter : StatusFilters \cup {"overdue"}]
    \cup [is_api_gateway : BOOLEAN, accountant_id : Accountants \cup {""}]

Init ==
    /\ clients_table \in RosterClients
    /\ documents_table \in [ClientIds -> RosterDocs]
    /\ followup_table \in [ClientIds -> RosterLogs]
    /\ now = MaxTick
    /\ event = None
    /\ response = None
    /\ doc_status = Unset
    /\ risk_in = Unset
    /\ risk_out = Unset
    /\ page_limit = MaxDocTypes
    /\ unavailable = {}
    /\ clock_step = 0
    /\ followup_history = Unset
    /\ client_status = Unset
    /\ upload = Unset
    /\ classified_as = Unset
    /\ ServicesIdle

\* One invocation.  The handler writes to no table, so a second invocation
\* starts from the same store and returns what a first one does.
LambdaHandler ==
    \E ev \in Events :
        /\ event = None
        /\ event' = ev
        /\ response' = lambda_handler(ev, now)
        /\ UNCHANGED <<clients_table, documents_table, followup_table, now,
                       doc_status, risk_in, risk_out, page_limit, unavailable,
                       clock_step, followup_history, client_status, upload,
                       classified_as, service_vars>>

Next == LambdaHandler

Spec == Init /\ [][Next]_vars

-----------------------------------------------------------------------------
(* The roster when the follow-up log of a client holds an unreadable date *)
(* or the client store does not answer                                     *)

\* three reminders, the sent_date of the newest no ISO timestamp
UnreadableLog ==
    Append(LogOf(2, 0), [followup_event(3, 3, 0) EXCEPT !.sent_date = Malformed])

InitFaults ==
    /\ clients_table \in RosterClients
    /\ documents_table =
           [c \in ClientIds |->
               <<[document_type |-> DocTypeNames[1], required |-> TRUE,
                  received |-> FALSE]>>]
    /\ followup_table \in [ClientIds -> RosterLogs \cup {UnreadableLog}]
    /\ now = MaxTick
    /\ event = None
    /\ response = None
    /\ doc_status = Unset
    /\ risk_in = Unset
    /\ risk_out = Unset
    /\ page_limit = MaxDocTypes
    /\ unavailable \in {{}, {"clients"}}
    /\ clock_step = 0
    /\ followup_history = Unset
    /\ client_status = Unset
    /\ upload = Unset
    /\ classified_as = Unset
    /\ ServicesIdle

SpecFaults == InitFaults /\ [][Next]_vars

-----------------------------------------------------------------------------
(* get_client_documents over every list of rows *)

InitDocs ==
    /\ clients_table = <<>>
    /\ documents_table \in [{ClientNames[1]} -> RowSeqs(MaxDocTypes)]
    /\ followup_table = NoTable
    /\ now = 0
    /\ event = None
    /\ response = None
    /\ doc_status = Unset
    /\ risk_in = Unset
    /\ risk_out = Unset
    /\ page_limit = MaxDocTypes
    /\ unavailable = {}
    /\ clock_step = 0
    /\ followup_history = Unset
    /\ client_status = Unset
    /\ upload = Unset
    /\ classified_as = Unset
    /\ ServicesIdle

GetClientDocuments ==
    /\ doc_status' = get_client_documents(ClientNames[1])
    /\ UNCHANGED <<clients_table, documents_table, followup_table, now, event,
                   response, risk_in, risk_out, page_limit, unavailable,
                   clock_step, followup_history, client_status, upload,
                   classified_as, service_vars>>

NextDocs == GetClientDocuments

SpecDocs == InitDocs /\ [][NextDocs]_vars

-----------------------------------------------------------------------------
(* The risk classifier over every argument *)

Percentages == {0, 50, 100}

SettingsSet ==
    [escalation_threshold : 0..MaxThreshold, escalation_days : 0..MaxEscDays]
    \cup [escalation_threshold : 0..MaxThreshold]
    \cup [escalation_days : 0..MaxEscDays]
    \cup {[x \in {} |-> 0]}

InitRisk ==
    /\ clients_table = <<>>
    /\ documents_table = NoTable
    /\ followup_table = NoTable
    /\ now \in 0..MaxTick
    /\ event = None
    /\ response = None
    /\ doc_status = Unset
    /\ risk_in \in [completion_pct : Percentages,
                    followup_count : 0..MaxCount,
                    last_followup_date : {None, Malformed}
                                           \cup {Iso(t) : t \in 0..now},
                    settings : SettingsSet]
    /\ risk_out = [status |-> "", days |-> Unset]
    /\ page_limit = MaxDocTypes
    /\ unavailable = {}
    /\ clock_step = 0
    /\ followup_history = Unset
    /\ client_status = Unset
    /\ upload = Unset
    /\ classified_as = Unset
    /\ ServicesIdle

CalculateRiskStatus ==
    /\ risk_out.status = ""
    /\ risk_out' = [risk_out EXCEPT !.status =
                       calculate_risk_status(risk_in.completion_pct,
                                             risk_in.followup_count,
                                             risk_in.last_followup_date,
                                             risk_in.settings, now)]
    /\ UNCHANGED <<clients_table, documents_table, followup_table, now, event,
                   response, doc_status, risk_in, page_limit, unavailable,
                   clock_step, followup_history, client_status, upload,
                   classified_as, service_vars>>

CalculateDaysUntilEscalation ==
    /\ risk_out.days = Unset
    /\ risk_out' = [risk_out EXCEPT !.days =
                       calculate_days_until_escalation(risk_in.followup_count,
                                                       risk_in.last_followup_date,
                                                       risk_in.settings, now)]
    /\ UNCHANGED <<clients_table, documents_table, followup_table, now, event,
                   response, doc_status, risk_in, page_limit, unavailable,
                   clock_step, followup_history, client_status, upload,
                   classified_as, service_vars>>

NextRisk == CalculateRiskStatus \/ CalculateDaysUntilEscalation

SpecRisk == InitRisk /\ [][NextRisk]_vars

-----------------------------------------------------------------------------
(* build_client_status over one client's rows and follow-up log *)

MaxEvents == 11       \* most events in a client's follow-up log

Reads == {"documents", "followups", "all_documents"}

\* what log_upload_link_sent of the upload-link sender writes: no
\* followup_number, no next_followup_date; its followup_id 'upload_link_...'
\* sorts behind every 'fu_...'
upload_link_event(id, sent) ==
    [followup_id |-> id,
     followup_type |-> "upload_link",
     sent_date |-> Iso(sent),
     link_used |-> FALSE]

\* the newest event of a log of k events: a reminder sent at some tick, a
\* reminder whose sent_date is no ISO timestamp, an upload link
LastEvents(k) ==
    {followup_event(k, k, t) : t \in 0..MaxTick}
    \cup {[followup_event(k, k, 0) EXCEPT !.sent_date = Malformed]}
    \cup {upload_link_event(k, MaxTick)}

ClientLogs ==
    {<<>>} \cup UNION {{Append(LogOf(k - 1, 0), e) : e \in LastEvents(k)} :
                          k \in 1..MaxEvents}

\* a required row, received or not, or the row the document processor's
\* upsert leaves for a document nobody required
ClientRowsOf(dt) ==
    {[document_type |-> dt, required |-> TRUE, received |-> v] : v \in BOOLEAN}
    \cup {[document_type |-> dt, received |-> TRUE]}

ClientRows ==
    {s \in RowSeqs(MaxDocTypes) :
        \A i \in 1..Len(s) : s[i] \in ClientRowsOf(DocTypeNames[i])}

TheClient == [client_id |-> ClientNames[1], accountant_id |-> "acct_A"]

InitClient ==
    /\ clients_table = <<TheClient>>
    /\ documents_table \in [{ClientNames[1]} -> ClientRows]
    /\ followup_table \in [{ClientNames[1]} -> ClientLogs]
    /\ now = MaxTick
    /\ event = None
    /\ response = None
    /\ doc_status = Unset
    /\ risk_in = Unset
    /\ risk_out = Unset
    /\ page_limit \in 1..MaxDocTypes
    /\ unavailable \in SUBSET Reads
    /\ clock_step \in {0, 1}
    /\ followup_history = Unset
    /\ client_status = Unset
    /\ upload = Unset
    /\ classified_as = Unset
    /\ ServicesIdle

\* build_client_status with the settings of lambda_handler (line 330); the
\* results of its two readers are kept beside the record
BuildClientStatus ==
    /\ client_status = Unset
    /\ doc_status' = get_client_documents(TheClient.client_id)
    /\ followup_history' = get_followup_history(TheClient.client_id)
    /\ client_status' =
           build_client_status(TheClient,
                               [escalation_threshold |-> 3, escalation_days |-> 2],
                               now)
    /\ UNCHANGED <<clients_table, documents_table, followup_table, now, event,
                   response, risk_in, risk_out, page_limit, unavailable,
                   clock_step, upload, classified_as, service_vars>>

NextClient == BuildClientStatus

SpecClient == InitClient /\ [][NextClient]_vars

-----------------------------------------------------------------------------
(* classify_document of the document checker *)

UpperCase == "ABCDEFGHIJKLMNOPQRSTUVWXYZ"
LowerCase == "abcdefghijklmnopqrstuvwxyz"

\* the letter of `to` at the place c has in `from`, c itself when it has none
map_char(c, from, to) ==
    IF \E i \in 1..Len(from) : SubSeq(from, i, i) = c
    THEN LET i == CHOOSE i \in 1..Len(from) : SubSeq(from, i, i) = c
         IN  SubSeq(to, i, i)
    ELSE c

RECURSIVE map_string(_, _, _)
map_string(str, from, to) ==
    IF str = "" THEN ""
    ELSE map_char(SubSeq(str, 1, 1), from, to)
           \o map_string(SubSeq(str, 2, Len(str)), from, to)

\* str.lower() and str.upper() on ASCII text
lower(str) == map_string(str, UpperCase, LowerCase)
upper(str) == map_string(str, LowerCase, UpperCase)

\* pattern in text
contains(text, pattern) ==
    \E i \in 1..(Len(text) - Len(pattern) + 1) :
        SubSeq(text, i, i + Len(pattern) - 1) = pattern

\* a dict keeps its items in the order they are written
DOCUMENT_PATTERNS ==
    <<[doc_type |-> "W-2", patterns |-> <<"w2", "w-2", "wage", "tax statement">>],
      [doc_type |-> "1099-INT", patterns |-> <<"1099-int", "1099int", "interest income">>],
      [doc_type |-> "1099-DIV", patterns |-> <<"1099-div", "1099div", "dividend">>],
      [doc_type |-> "1099-MISC", patterns |-> <<"1099-misc", "1099misc", "miscellaneous">>],
      [doc_type |-> "1099-NEC", patterns |-> <<"1099-nec", "1099nec", "non-employee">>],
      [doc_type |-> "1099-B", patterns |-> <<"1099-b", "1099b", "broker">>],
      [doc_type |-> "1099-R", patterns |-> <<"1099-r", "1099r", "retirement">>]>>

\* any(pattern in text for pattern in patterns)
any_pattern_in(patterns, text) ==
    \E j \in 1..Len(patterns) : contains(text, patterns[j])

\* the filename matched as it is written
classify_document_case_sensitive(filename, metadata) ==
    IF "document-type" \in DOMAIN metadata THEN metadata["document-type"]
    ELSE LET matching == {i \in 1..Len(DOCUMENT_PATTERNS) :
                             any_pattern_in(DOCUMENT_PATTERNS[i].patterns, filename)}
         IN  IF matching = {} THEN "Unknown"
             ELSE DOCUMENT_PATTERNS[CHOOSE i \in matching :
                                       \A k \in matching : i <= k].doc_type

classify_document(filename, metadata) ==
    LET filename_lower == lower(filename)
    IN  IF "document-type" \in DOMAIN metadata THEN metadata["document-type"]
        ELSE LET matching == {i \in 1..Len(DOCUMENT_PATTERNS) :
                                 any_pattern_in(DOCUMENT_PATTERNS[i].patterns,
                                                filename_lower)}
             IN  IF matching = {} THEN "Unknown"
                 ELSE DOCUMENT_PATTERNS[CHOOSE i \in matching :
                                           \A k \in matching : i <= k].doc_type

\* every keyword of the table
Keywords ==
    UNION {{DOCUMENT_PATTERNS[i].patterns[j] :
               j \in 1..Len(DOCUMENT_PATTERNS[i].patterns)} :
           i \in 1..Len(DOCUMENT_PATTERNS)}

\* file names: a keyword in lower or upper case, or no keyword, behind a
\* prefix and in front of an ending that may hold a keyword of their own
Filenames ==
    {before \o stem \o ending :
        before \in {"", "2023_", "Wage "},
        stem \in Keywords \cup {upper(k) : k \in Keywords} \cup {"", "scan001"},
        ending \in {".pdf", ".PDF", "_1099-r.pdf"}}

\* S3 object metadata: none, without a document type, with one
Metadatas ==
    {[k \in {} |-> ""], "client-id" :> "client_1"}
    \cup {"document-type" :> t : t \in {"W-2", "1099-R", "Receipt", ""}}
    \cup {("client-id" :> "client_1") @@ ("document-type" :> "Schedule K-1")}

InitClassify ==
    /\ clients_table = <<>>
    /\ documents_table = NoTable
    /\ followup_table = NoTable
    /\ now = 0
    /\ event = None
    /\ response = None
    /\ doc_status = Unset
    /\ risk_in = Unset
    /\ risk_out = Unset
    /\ page_limit = MaxDocTypes
    /\ unavailable = {}
    /\ clock_step = 0
    /\ followup_history = Unset
    /\ client_status = Unset
    /\ upload \in [filename : Filenames, metadata : Metadatas]
    /\ classified_as = Unset
    /\ ServicesIdle

ClassifyDocument ==
    /\ classified_as = Unset
    /\ classified_as' =
           [returned |-> classify_document(upload.filename, upload.metadata)]
    /\ UNCHANGED <<clients_table, documents_table, followup_table, now, event,
                   response, doc_status, risk_in, risk_out, page_limit,
                   unavailable, clock_step, followup_history, client_status,
                   upload, service_vars>>

NextClassify == ClassifyDocument

SpecClassify == InitClassify /\ [][NextClassify]_vars

-----------------------------------------------------------------------------
(* The email sender: lambda_handler and log_followup of email_sender_lambda *)

MaxSends == 3         \* reminders the email sender logs in one behaviour
MaxSecond == 2        \* seconds the clock advances in one behaviour

\* the sort key of an event: 'fu_<second>' sorts in front of
\* 'upload_link_<second>', two keys of one kind by their second
sort_key(e) == <<IF "followup_type" \in DOMAIN e THEN 1 ELSE 0, e.followup_id>>

key_less(a, b) == a[1] < b[1] \/ (a[1] = b[1] /\ a[2] < b[2])

\* table.put_item(Item=item) on the events of one client: the item takes the
\* place of the one with its key, if there is one
put_item(items, item) ==
    LET others == SelectSeq(items, LAMBDA e : sort_key(e) # sort_key(item))
    IN  SelectSeq(others, LAMBDA e : key_less(sort_key(e), sort_key(item)))
        \o <<item>>
        \o SelectSeq(others, LAMBDA e : key_less(sort_key(item), sort_key(e)))

\* the events of a client
events_of(client_id) ==
    IF client_id \in DOMAIN followup_table THEN followup_table[client_id] ELSE <<>>

\* log_followup: the table after put_item of the event keyed fu_<second>
log_followup(client_id, followup_number) ==
    [c \in DOMAIN followup_table \cup {client_id} |->
        IF c = client_id
        THEN put_item(events_of(c), followup_event(epoch_second, followup_number, now))
        ELSE followup_table[c]]

\* lambda_handler of the email sender: its response and the follow-up table
\* it leaves; ses_ok and put_ok tell whether SES and the store accept
email_sender_handler(ev, ses_ok, put_ok) ==
    LET client_id == Get(ev, "client_id", "")
        missing_documents == Get(ev, "missing_documents", <<>>)
        followup_number == Get(ev, "followup_number", 1)
        failed(type) == [response |-> [success |-> FALSE, error_type |-> type],
                         table |-> followup_table]
    IN  IF client_id = "" \/ missing_documents = <<>> THEN failed("ValueError")
        ELSE IF get_item(client_id) = <<>> THEN failed("ValueError")
        ELSE IF "email" \notin DOMAIN get_item(client_id)[1] THEN failed("KeyError")
        ELSE IF ~ses_ok THEN failed("ClientError")
        ELSE IF ~put_ok THEN failed("ClientError")
        ELSE [response |-> [success |-> TRUE,
                            followup_id |-> epoch_second,
                            followup_number |-> followup_number],
              table |-> log_followup(client_id, followup_number)]

SenderClient ==
    [client_id |-> ClientNames[1], accountant_id |-> "acct_A",
     email |-> "client_1@example.com"]

SenderEvents ==
    [client_id : {ClientNames[1], "client_unknown", ""},
     missing_documents : {<<>>, <<"W-2">>},
     followup_number : 1..MaxSends]
    \cup [client_id : {ClientNames[1]}, missing_documents : {<<"W-2">>}]

InitSender ==
    /\ clients_table = <<SenderClient>>
    /\ documents_table = NoTable
    /\ followup_table = [c \in {ClientNames[1]} |-> <<>>]
    /\ now = 0
    /\ event = None
    /\ response = None
    /\ doc_status = Unset
    /\ risk_in = Unset
    /\ risk_out = Unset
    /\ page_limit = MaxDocTypes
    /\ unavailable = {}
    /\ clock_step = 0
    /\ followup_history = Unset
    /\ client_status = Unset
    /\ upload = Unset
    /\ classified_as = Unset
    /\ epoch_second = 0
    /\ sends = <<>>
    /\ batch = Unset
    /\ bucket = NoObjects

\* one invocation of the email sender
SendReminder ==
    \E ev \in SenderEvents, ses_ok, put_ok \in BOOLEAN :
        LET result == email_sender_handler(ev, ses_ok, put_ok)
        IN  /\ Len(sends) < MaxSends
            /\ event' = ev
            /\ response' = result.response
            /\ followup_table' = result.table
            /\ sends' = IF result.response.success
                         THEN Append(sends, followup_event(epoch_second,
                                                           result.response.followup_number,
                                                           now))
                         ELSE sends
            /\ UNCHANGED <<clients_table, documents_table, now, doc_status, risk_in,
                           risk_out, page_limit, unavailable, clock_step,
                           followup_history, client_status, upload, classified_as,
                           epoch_second, batch, bucket>>

\* the clock reaches the next second
SecondPasses ==
    /\ epoch_second < MaxSecond
    /\ epoch_second' = epoch_second + 1
    /\ UNCHANGED <<clients_table, documents_table, followup_table, now, event,
                   response, doc_status, risk_in, risk_out, page_limit,
                   unavailable, clock_step, followup_history, client_status,
                   upload, classified_as, sends, batch, bucket>>

NextSender == SendReminder \/ SecondPasses

SpecSender == InitSender /\ [][NextSender]_vars

-----------------------------------------------------------------------------
(* Batch operations: lambda_handler of batch_operations/index.py *)

MaxBatch == 2         \* client ids in one batch request
max_workers == 10     \* ThreadPoolExecutor(max_workers=10)

\* what a store or mail call of one worker can meet
Faults == {"none", "get_item", "query", "update_item", "send_email"}

\* get_client_info: the item, {} when there is none or the store fails
get_client_info(client_id, fault) ==
    IF fault # "get_item" /\ get_item(client_id) # <<>>
    THEN get_item(client_id)[1]
    ELSE [k \in {} |-> None]

failed_result(client_id, error) ==
    [client_id |-> client_id, success |-> FALSE, error |-> error]

sent_result(client_id) == [client_id |-> client_id, success |-> TRUE]

\* send_reminder_to_client
send_reminder_to_client(client_id, fault) ==
    LET client_info == get_client_info(client_id, fault)
        missing_docs ==
            SelectSeq(documents_query(client_id),
                      LAMBDA d : Get(d, "required", FALSE)
                                 /\ ~Get(d, "received", FALSE))
    IN  IF Get(client_info, "email", "") = ""
        THEN failed_result(client_id, "No email address on file")
        ELSE IF fault = "query" THEN failed_result(client_id, "ClientError")
        ELSE IF missing_docs = <<>>
        THEN failed_result(client_id, "All documents already received")
        ELSE IF fault = "send_email" THEN failed_result(client_id, "ClientError")
        ELSE sent_result(client_id)

\* clients_table.update_item(SET upload_token, token_expires)
set_upload_token(client_id, token) ==
    [i \in DOMAIN clients_table |->
        IF clients_table[i].client_id = client_id
        THEN [k \in DOMAIN clients_table[i] \cup {"upload_token", "token_expires"} |->
                 IF k = "upload_token" THEN token
                 ELSE IF k = "token_expires" THEN Iso(now + 30 * TicksPerDay)
                 ELSE clients_table[i][k]]
        ELSE clients_table[i]]

\* send_upload_link_to_client: its result and the clients table it leaves
send_upload_link_to_client(client_id, token, fault) ==
    LET client_info == get_client_info(client_id, fault)
    IN  IF Get(client_info, "email", "") = ""
        THEN [result |-> failed_result(client_id, "No email address on file"),
              table |-> clients_table]
        ELSE IF fault = "update_item"
        THEN [result |-> failed_result(client_id, "ClientError"),
              table |-> clients_table]
        ELSE IF fault = "send_email"
        THEN [result |-> failed_result(client_id, "ClientError"),
              table |-> set_upload_token(client_id, token)]
        ELSE [result |-> sent_result(client_id),
              table |-> set_upload_token(client_id, token)]

\* results.append(future.result()) keeping the successes only
collect_successes(results, result) ==
    IF result.success THEN Append(results, result) ELSE results

\* results.append(future.result())
collect(results, result) == Append(results, result)

\* the 200 response of the two pooled operations
batch_response(operation, client_ids, results) ==
    [statusCode |-> 200,
     body |-> [success |-> TRUE,
               operation |-> operation,
               total |-> Len(client_ids),
               succeeded |-> Len(SelectSeq(results, LAMBDA r : r.success)),
               failed |-> Len(SelectSeq(results, LAMBDA r : ~r.success)),
               results |-> results]]

PooledOperations == {"send_reminders", "send_upload_links"}

\* a client to remind, one without an address, one with nothing missing
BatchClients ==
    <<[client_id |-> ClientNames[1], accountant_id |-> "acct_A",
       client_name |-> "One", email |-> "client_1@example.com"],
      [client_id |-> ClientNames[2], accountant_id |-> "acct_A",
       client_name |-> "Two"],
      [client_id |-> ClientNames[3], accountant_id |-> "acct_A",
       client_name |-> "Three", email |-> "client_3@example.com"]>>

BatchIds == {BatchClients[i].client_id : i \in 1..3} \cup {"client_unknown"}

BatchRequests ==
    [accountant_id : {"acct_A"},
     operation : PooledOperations,
     client_ids : UNION {[1..n -> BatchIds] : n \in 0..MaxBatch}]
    \cup [accountant_id : {"", "acct_A"},
          operation : {"", "archive"},
          client_ids : {<<ClientNames[1]>>}]

InitBatch ==
    /\ clients_table = BatchClients
    /\ documents_table =
           [c \in {ClientNames[1], ClientNames[2], ClientNames[3]} |->
               <<[document_type |-> DocTypeNames[1], required |-> TRUE,
                  received |-> c = ClientNames[3]]>>]
    /\ followup_table = NoTable
    /\ now = 0
    /\ event = None
    /\ response = None
    /\ doc_status = Unset
    /\ risk_in = Unset
    /\ risk_out = Unset
    /\ page_limit = MaxDocTypes
    /\ unavailable = {}
    /\ clock_step = 0
    /\ followup_history = Unset
    /\ client_status = Unset
    /\ upload = Unset
    /\ classified_as = Unset
    /\ ServicesIdle

batch_frame ==
    <<documents_table, followup_table, now, event, response, doc_status,
      risk_in, risk_out, page_limit, unavailable, clock_step,
      followup_history, client_status, upload, classified_as, epoch_second,
      sends, bucket>>

\* lambda_handler up to the submission of one future per client id
BatchSubmit ==
    \E request \in BatchRequests :
        /\ batch = Unset
        /\ batch' =
               IF request.accountant_id = ""
               THEN [request |-> request, futures |-> <<>>, results |-> <<>>,
                     response |-> [statusCode |-> 401]]
               ELSE IF request.operation = "" \/ request.client_ids = <<>>
               THEN [request |-> request, futures |-> <<>>, results |-> <<>>,
                     response |-> [statusCode |-> 400]]
               ELSE IF request.operation \notin PooledOperations
               THEN [request |-> request, futures |-> <<>>, results |-> <<>>,
                     response |-> [statusCode |-> 400]]
               ELSE [request |-> request,
                     futures |-> [i \in 1..Len(request.client_ids) |->
                                     [client_id |-> request.client_ids[i],
                                      state |-> "pending",
                                      fault |-> "none",
                                      result |-> None]],
                     results |-> <<>>,
                     response |-> None]
        /\ UNCHANGED <<clients_table, batch_frame>>

Submitted == batch # Unset /\ batch.response = None

InState(state) == {i \in 1..Len(batch.futures) : batch.futures[i].state = state}

\* a thread of the pool takes a pending future
WorkerStarts ==
    /\ Submitted
    /\ Cardinality(InState("running")) < max_workers
    /\ \E i \in InState("pending") :
           batch' = [batch EXCEPT !.futures[i].state = "running"]
    /\ UNCHANGED <<clients_table, batch_frame>>

\* the thread runs the operation's function for its client to the end
WorkerRuns ==
    /\ Submitted
    /\ \E i \in InState("running"), fault \in Faults :
           LET client_id == batch.futures[i].client_id
               ran == IF batch.request.operation = "send_reminders"
                      THEN [result |-> send_reminder_to_client(client_id, fault),
                            table |-> clients_table]
                      ELSE send_upload_link_to_client(client_id, Some(i), fault)
           IN  /\ batch' = [batch EXCEPT !.futures[i] =
                               [client_id |-> client_id, state |-> "finished",
                                fault |-> fault, result |-> ran.result]]
               /\ clients_table' = ran.table
    /\ UNCHANGED batch_frame

\* as_completed yields a finished future and the handler appends its result
Collect ==
    /\ Submitted
    /\ \E i \in InState("finished") :
           batch' = [batch EXCEPT !.futures[i].state = "collected",
                                  !.results = collect(@, batch.futures[i].result)]
    /\ UNCHANGED <<clients_table, batch_frame>>

\* every future was yielded: the handler counts and returns
BatchReturns ==
    /\ Submitted
    /\ InState("collected") = 1..Len(batch.futures)
    /\ batch' = [batch EXCEPT !.response =
                     batch_response(batch.request.operation,
                                    batch.request.client_ids, batch.results)]
    /\ UNCHANGED <<clients_table, batch_frame>>

NextBatch == BatchSubmit \/ WorkerStarts \/ WorkerRuns \/ Collect \/ BatchReturns

SpecBatch == InitBatch /\ [][NextBatch]_vars

-----------------------------------------------------------------------------
(* The upload-link sender: lambda_handler of send_upload_link_lambda *)

\* what a store or mail call of the handler can meet
LinkFaults == {"none", "get_item", "update_item", "send_email", "put_item"}

\* generate_upload_token: update_item(SET upload_token, token_expires,
\* token_generated_at) on the client's item
generate_upload_token(client_id, token, days_valid) ==
    [i \in DOMAIN clients_table |->
        IF clients_table[i].client_id = client_id
        THEN [k \in DOMAIN clients_table[i]
                    \cup {"upload_token", "token_expires", "token_generated_at"} |->
                 IF k = "upload_token" THEN token
                 ELSE IF k = "token_expires" THEN Iso(now + days_valid * TicksPerDay)
                 ELSE IF k = "token_generated_at" THEN Iso(now)
                 ELSE clients_table[i][k]]
        ELSE clients_table[i]]

\* log_upload_link_sent: the follow-up table after put_item of the entry
\* keyed upload_link_<second>; a ClientError of the store is logged and dropped
log_upload_link_sent(client_id, fault) ==
    IF fault = "put_item" THEN followup_table
    ELSE [c \in DOMAIN followup_table \cup {client_id} |->
             IF c = client_id
             THEN put_item(events_of(c), upload_link_event(epoch_second, now))
             ELSE followup_table[c]]

\* lambda_handler of the upload-link sender: its response and the two tables
\* it leaves
send_upload_link_handler(ev, token, fault) ==
    LET client_id == Get(ev, "client_id", "")
        days_valid == Get(ev, "days_valid", 30)
        send_via == Get(ev, "send_via", "both")
        failed(type, clients) ==
            [response |-> [success |-> FALSE, error_type |-> type],
             clients |-> clients, followups |-> followup_table]
        client_info == get_item(client_id)[1]
        can_sms == Get(client_info, "phone", "") # ""
                   /\ Get(client_info, "sms_enabled", FALSE)
        emailed == send_via \in {"email", "both"}
                   /\ Get(client_info, "email", "") # ""
                   /\ fault # "send_email"
        texted == send_via \in {"sms", "both"} /\ can_sms
    IN  IF client_id = "" THEN failed("ValidationError", clients_table)
        ELSE IF ~(1 <= days_valid /\ days_valid <= 90)
        THEN failed("ValidationError", clients_table)
        ELSE IF fault = "get_item" THEN failed("ClientError", clients_table)
        ELSE IF get_item(client_id) = <<>>
        THEN failed("ValidationError", clients_table)
        ELSE IF Get(client_info, "email", "") = "" /\ ~can_sms
        THEN failed("ValidationError", clients_table)
        ELSE IF fault = "update_item" THEN failed("ClientError", clients_table)
        ELSE IF ~emailed /\ ~texted
        THEN failed("ValidationError",
                    generate_upload_token(client_id, token, days_valid))
        ELSE [response |-> [success |-> TRUE,
                            upload_link_sent |-> TRUE,
                            client_id |-> client_id,
                            log_id |-> IF fault = "put_item"
                                       THEN "log_failed" ELSE "upload_link"],
              clients |-> generate_upload_token(client_id, token, days_valid),
              followups |-> log_upload_link_sent(client_id, fault)]

LinkEvents ==
    [client_id : {ClientNames[1], "client_unknown", ""},
     days_valid : {0, 30},
     send_via : {"both", "sms"}]
    \cup {[client_id |-> ClientNames[1]]}

\* the reminders the client was sent before: none, one below the threshold,
\* or as many as the threshold less one
LinkLogs == {LogOf(k, t) : k \in 0..2, t \in {0, MaxTick}}

InitLink ==
    /\ clients_table = <<SenderClient>>
    /\ documents_table \in [{ClientNames[1]} -> RosterDocs]
    /\ followup_table \in [{ClientNames[1]} -> LinkLogs]
    /\ now = MaxTick
    /\ event = None
    /\ response = None
    /\ doc_status = Unset
    /\ risk_in = Unset
    /\ risk_out = Unset
    /\ page_limit = MaxDocTypes
    /\ unavailable = {}
    /\ clock_step = 0
    /\ followup_history = Unset
    /\ client_status = Unset
    /\ upload = Unset
    /\ classified_as = Unset
    /\ ServicesIdle

\* the status tracker reads the client: get_followup_history and
\* build_client_status with the settings of its lambda_handler
TrackerReads ==
    /\ client_status = Unset
    /\ doc_status' = get_client_documents(ClientNames[1])
    /\ followup_history' = get_followup_history(ClientNames[1])
    /\ client_status' =
           build_client_status(clients_table[1],
                               [escalation_threshold |-> 3, escalation_days |-> 2],
                               now)
    /\ UNCHANGED <<clients_table, documents_table, followup_table, now, event,
                   response, risk_in, risk_out, page_limit, unavailable,
                   clock_step, upload, classified_as, service_vars>>

\* one invocation of the upload-link sender
SendUploadLink ==
    \E ev \in LinkEvents, fault \in LinkFaults :
        LET result == send_upload_link_handler(ev, Some(epoch_second), fault)
        IN  /\ event = None
            /\ event' = ev
            /\ response' = result.response
            /\ clients_table' = result.clients
            /\ followup_table' = result.followups
            /\ UNCHANGED <<documents_table, now, doc_status, risk_in, risk_out,
                           page_limit, unavailable, clock_step, followup_history,
                           client_status, upload, classified_as, service_vars>>

NextLink == TrackerReads \/ SendUploadLink \/ SecondPasses

SpecLink == InitLink /\ [][NextLink]_vars

-----------------------------------------------------------------------------
(* Uploads: the upload manager, the document processor, the document checker *)

Digits == "0123456789"
Alnum == UpperCase \o LowerCase \o Digits

current_year == 2024   \* datetime.now().year

\* document types and 'Unknown' in sort-key order
SortedTypes ==
    <<"1099-DIV", "1099-INT", "1099-MISC", "1099-NEC", "Business Expense Receipts",
      "Prior Year Tax Return", "Schedule K-1", "Unknown", "W-2", "W-2G", "W-9">>
sort_rank(dt) == CHOOSE i \in 1..Len(SortedTypes) : SortedTypes[i] = dt

RECURSIVE keep_chars(_, _)
\* ''.join(c for c in str if c in chars)
keep_chars(str, chars) ==
    IF str = "" THEN ""
    ELSE (IF contains(chars, SubSeq(str, 1, 1)) THEN SubSeq(str, 1, 1) ELSE "")
         \o keep_chars(SubSeq(str, 2, Len(str)), chars)

RECURSIVE split(_, _, _)
\* str.split(sep): the pieces between separators, `word` being the piece begun
split(str, sep, word) ==
    IF str = "" THEN <<word>>
    ELSE IF SubSeq(str, 1, 1) = sep
    THEN <<word>> \o split(SubSeq(str, 2, Len(str)), sep, "")
    ELSE split(SubSeq(str, 2, Len(str)), sep, word \o SubSeq(str, 1, 1))

RECURSIVE join(_, _)
\* sep.join(words)
join(words, sep) ==
    IF words = <<>> THEN ""
    ELSE IF Len(words) = 1 THEN words[1]
    ELSE words[1] \o sep \o join(Tail(words), sep)

starts_with(text, prefix) ==
    Len(text) >= Len(prefix) /\ SubSeq(text, 1, Len(prefix)) = prefix
ends_with(text, suffix) ==
    Len(text) >= Len(suffix)
    /\ SubSeq(text, Len(text) - Len(suffix) + 1, Len(text)) = suffix

\* sanitize_filename; the names of the model stay below its limit of 100
sanitize_filename(filename) ==
    keep_chars(map_string(filename, " ", "_"), Alnum \o "._-")

\* the folder generate_presigned_url stores under: lastName_FirstName_TaxYear
folder_name(client_name, tax_year) ==
    LET name_parts == SelectSeq(split(client_name, " ", ""), LAMBDA w : w # "")
        named == IF Len(name_parts) >= 2
                 THEN name_parts[Len(name_parts)] \o "_"
                      \o join(SubSeq(name_parts, 1, Len(name_parts) - 1), "_")
                      \o "_" \o ToString(tax_year)
                 ELSE map_string(client_name, " ", "_") \o "_" \o ToString(tax_year)
    IN  keep_chars(named, Alnum \o "_-")

\* generate_presigned_url: the key and the Metadata the URL is signed for
generate_presigned_url(client_id, client_name, filename, tax_year, document_type) ==
    [s3_key |-> folder_name(client_name, tax_year) \o "/" \o sanitize_filename(filename),
     Metadata |-> ("document-type" :> document_type)
                  @@ ("tax-year" :> ToString(tax_year))
                  @@ ("upload-date" :> Iso(now))
                  @@ ("client-id" :> client_id)]

validate_client(client_id, upload_token) ==
    IF get_item(client_id) = <<>> THEN FALSE
    ELSE LET client == get_item(client_id)[1]
         IN  IF Get(client, "upload_token", "") = ""
                \/ Get(client, "upload_token", "") # upload_token
             THEN FALSE
             ELSE IF "token_expires" \in DOMAIN client
                     /\ now > client.token_expires.t
             THEN FALSE
             ELSE TRUE

\* lambda_handler of the upload manager on an upload request
upload_manager_handler(body) ==
    LET client_id == Get(body, "client_id", "")
        upload_token == Get(body, "upload_token", "")
        filename == Get(body, "filename", "")
        tax_year == Get(body, "tax_year", current_year)
        document_type == Get(body, "document_type", "Unknown")
    IN  IF client_id = "" \/ upload_token = "" \/ filename = ""
        THEN [statusCode |-> 400]
        ELSE IF ~ends_with(lower(filename), ".pdf") THEN [statusCode |-> 400]
        ELSE IF ~validate_client(client_id, upload_token) THEN [statusCode |-> 403]
        ELSE [statusCode |-> 200,
              upload_url |->
                  generate_presigned_url(client_id,
                      Get(get_item(client_id)[1], "client_name", "Unknown_Client"),
                      filename, tax_year, document_type)]

\* the rows of a client
rows_of(client_id) ==
    IF client_id \in DOMAIN documents_table THEN documents_table[client_id] ELSE <<>>

\* table.update_item(Key, SET attrs) on the rows of one client: the row of
\* the key takes the attributes, and is created when there is none
update_item(rows, document_type, attrs) ==
    LET merged(row) == [k \in DOMAIN row \cup DOMAIN attrs |->
                           IF k \in DOMAIN attrs THEN attrs[k] ELSE row[k]]
    IN  IF \E i \in 1..Len(rows) : rows[i].document_type = document_type
        THEN [i \in 1..Len(rows) |->
                 IF rows[i].document_type = document_type
                 THEN merged(rows[i]) ELSE rows[i]]
        ELSE SelectSeq(rows, LAMBDA r : sort_rank(r.document_type)
                                            < sort_rank(document_type))
             \o <<merged([document_type |-> document_type])>>
             \o SelectSeq(rows, LAMBDA r : sort_rank(r.document_type)
                                              > sort_rank(document_type))

\* one page of a query result
first_page(rows) == SubSeq(rows, 1, Min(Len(rows), page_limit))

\* calculate_completion_percentage of the document processor, on the items
\* its query returned
processor_completion_percentage(documents) ==
    LET required_rows == SelectSeq(documents, LAMBDA d : Get(d, "required", FALSE))
        received_rows == SelectSeq(required_rows, LAMBDA d : Get(d, "received", FALSE))
    IN  IF required_rows = <<>> THEN 100
        ELSE (100 * Len(received_rows)) \div Len(required_rows)

\* process_s3_upload: the two tables it leaves; file_path is the key of the
\* object, the bucket being the one bucket of the model
process_s3_upload(key) ==
    LET metadata == IF key \in DOMAIN bucket THEN bucket[key] ELSE [k \in {} |-> ""]
        client_id == Get(metadata, "client-id", "")
        document_type == Get(metadata, "document-type", "Unknown")
        updated == update_item(rows_of(client_id), document_type,
                               [received |-> TRUE, received_date |-> Iso(now),
                                file_path |-> key, last_updated |-> Iso(now)])
    IN  IF client_id = ""
        THEN [documents |-> documents_table, clients |-> clients_table]
        ELSE [documents |-> [c \in DOMAIN documents_table \cup {client_id} |->
                                IF c = client_id THEN updated ELSE documents_table[c]],
              clients |-> IF processor_completion_percentage(first_page(updated)) = 100
                          THEN [i \in DOMAIN clients_table |->
                                   IF clients_table[i].client_id = client_id
                                   THEN [k \in DOMAIN clients_table[i] \cup {"status"} |->
                                            IF k = "status" THEN "complete"
                                            ELSE clients_table[i][k]]
                                   ELSE clients_table[i]]
                          ELSE clients_table]

\* scan_client_folder: the documents under <client_id>/<tax_year>/
scan_client_folder(client_id, tax_year) ==
    LET prefix == client_id \o "/" \o ToString(tax_year) \o "/"
        keys == {key \in DOMAIN bucket :
                    starts_with(key, prefix) /\ ~ends_with(key, "/")}
        filename(key) == LET parts == split(key, "/", "") IN parts[Len(parts)]
    IN  {[filename |-> filename(key),
          document_type |-> classify_document(filename(key), bucket[key]),
          s3_key |-> key] : key \in keys}

get_required_documents(client_id, tax_year) ==
    SelectSeq(first_page(rows_of(client_id)),
              LAMBDA item : Get(item, "required", FALSE)
                            /\ "tax_year" \in DOMAIN item
                            /\ item.tax_year = tax_year)

RECURSIVE set_received(_, _, _)
\* the loop of update_document_status over the required documents
set_received(rows, required_list, received_types) ==
    IF required_list = <<>> THEN rows
    ELSE set_received(
             update_item(rows, Head(required_list).document_type,
                         [received |-> Head(required_list).document_type
                                           \in received_types,
                          last_checked |-> Iso(now)]),
             Tail(required_list), received_types)

\* update_document_status of the document checker
update_document_status(client_id, tax_year, received_documents) ==
    LET received_types == {doc.document_type : doc \in received_documents}
    IN  set_received(rows_of(client_id),
                     get_required_documents(client_id, tax_year), received_types)

\* calculate_completion_percentage of the document checker
checker_completion_percentage(required_list, received_list) ==
    LET received_types == {doc.document_type : doc \in received_list}
        required_types == {required_list[i].document_type :
                              i \in 1..Len(required_list)}
    IN  IF required_list = <<>> THEN 100
        ELSE (100 * Cardinality(received_types \cap required_types))
                 \div Cardinality(required_types)

\* lambda_handler of the document checker: its response and the rows it leaves
document_checker_handler(ev) ==
    LET client_id == Get(ev, "client_id", "")
        tax_year == Get(ev, "tax_year", 0)
        received_documents == scan_client_folder(client_id, tax_year)
        required_documents == get_required_documents(client_id, tax_year)
        completion_pct == checker_completion_percentage(required_documents,
                                                        received_documents)
    IN  IF client_id = "" \/ tax_year = 0
        THEN [response |-> [error_type |-> "ValueError"],
              documents |-> documents_table]
        ELSE [response |-> [client_id |-> client_id,
                            tax_year |-> tax_year,
                            status |-> IF completion_pct = 100 THEN "complete"
                                       ELSE IF completion_pct >= 50 THEN "incomplete"
                                       ELSE "at_risk",
                            completion_percentage |-> completion_pct,
                            received_documents |-> received_documents],
              documents |-> [c \in DOMAIN documents_table |->
                                IF c = client_id
                                THEN update_document_status(client_id, tax_year,
                                                            received_documents)
                                ELSE documents_table[c]]]

UploadClient ==
    [client_id |-> ClientNames[1], accountant_id |-> "acct_A",
     client_name |-> "John Doe", email |-> "client_1@example.com",
     upload_token |-> "tok_1", token_expires |-> Iso(1)]

UploadBodies ==
    [client_id : {ClientNames[1]},
     upload_token : {"tok_1", "tok_0"},
     filename : {"w2.pdf", "My W2 (1).PDF", "w2.txt"},
     tax_year : {current_year},
     document_type : {"W-2", "1099-INT"}]
    \cup {[client_id |-> ClientNames[1], upload_token |-> "tok_1",
           filename |-> "scan.pdf"],
          [upload_token |-> "tok_1", filename |-> "w2.pdf"]}

CheckerEvents ==
    [client_id : {ClientNames[1]}, tax_year : {current_year, current_year - 1}]
    \cup {[client_id |-> ClientNames[1]]}

\* the requirement rows of the client: W-2 required, 1099-INT may be
UploadRows ==
    {<<[document_type |-> "1099-INT", tax_year |-> current_year,
        required |-> r, received |-> FALSE],
       [document_type |-> "W-2", tax_year |-> current_year,
        required |-> TRUE, received |-> FALSE]>> : r \in BOOLEAN}

\* the bucket at the start: empty, or a file put under <client_id>/<tax_year>/
UploadBuckets ==
    {NoObjects,
     (ClientNames[1] \o "/" \o ToString(current_year) \o "/1099-int.pdf")
         :> [k \in {} |-> ""]}

InitUpload ==
    /\ clients_table = <<UploadClient>>
    /\ documents_table \in [{ClientNames[1]} -> UploadRows]
    /\ followup_table = NoTable
    /\ now \in {0, 2}
    /\ event = None
    /\ response = None
    /\ doc_status = Unset
    /\ risk_in = Unset
    /\ risk_out = Unset
    /\ page_limit = MaxDocTypes
    /\ unavailable = {}
    /\ clock_step = 0
    /\ followup_history = Unset
    /\ client_status = Unset
    /\ upload = Unset
    /\ classified_as = Unset
    /\ epoch_second = 0
    /\ sends = <<>>
    /\ batch = Unset
    /\ bucket \in UploadBuckets

upload_frame ==
    <<followup_table, now, risk_in, risk_out, page_limit, unavailable,
      clock_step, followup_history, client_status, classified_as,
      epoch_second, sends, batch>>

\* the upload manager answers a request for an upload URL
RequestUploadUrl ==
    \E body \in UploadBodies :
        /\ response = None
        /\ response' = upload_manager_handler(body)
        /\ upload' = IF response'.statusCode = 200 THEN response'.upload_url
                     ELSE upload
        /\ UNCHANGED <<clients_table, documents_table, event, doc_status, bucket,
                       upload_frame>>

\* the client puts the file with the URL; the bucket notifies the processor
PutObject ==
    /\ upload # Unset
    /\ upload.s3_key \notin DOMAIN bucket
    /\ bucket' = bucket @@ (upload.s3_key :> upload.Metadata)
    /\ event' = [eventName |-> "ObjectCreated:Put", key |-> upload.s3_key]
    /\ UNCHANGED <<clients_table, documents_table, response, doc_status, upload,
                   upload_frame>>

\* lambda_handler of the document processor on the notification
ProcessUpload ==
    /\ event # None
    /\ LET result == process_s3_upload(event.key)
       IN  /\ documents_table' = result.documents
           /\ clients_table' = result.clients
    /\ event' = None
    /\ UNCHANGED <<response, doc_status, upload, bucket, upload_frame>>

\* one invocation of the document checker
CheckDocuments ==
    \E ev \in CheckerEvents :
        LET result == document_checker_handler(ev)
        IN  /\ doc_status = Unset
            /\ doc_status' = result.response
            /\ documents_table' = result.documents
            /\ UNCHANGED <<clients_table, event, response, upload, bucket,
                           upload_frame>>

NextUpload == RequestUploadUrl \/ PutObject \/ ProcessUpload \/ CheckDocuments

SpecUpload == InitUpload /\ [][NextUpload]_vars

-----------------------------------------------------------------------------
(* The requirement manager: lambda_handler of requirement_manager_lambda *)

\* the standard types the model touches
STANDARD_DOCUMENT_TYPES ==
    {"W-2", "1099-INT", "1099-DIV", "1099-MISC", "1099-NEC", "Schedule K-1",
     "Business Expense Receipts", "Prior Year Tax Return"}

validate_document_type(document_type) ==
    \/ document_type \in STANDARD_DOCUMENT_TYPES
    \/ /\ Len(document_type) <= 100
       /\ keep_chars(document_type, Alnum \o " -()") = document_type

\* add_document_requirement: put_item of a whole row, received False, on the
\* rows of one client
add_document_requirement(rows, tax_year, document_type, source, required) ==
    SelectSeq(rows, LAMBDA r : sort_rank(r.document_type) < sort_rank(document_type))
    \o <<[document_type |-> document_type, tax_year |-> tax_year,
          source |-> source, required |-> required, received |-> FALSE,
          created_at |-> Iso(now), last_updated |-> Iso(now)]>>
    \o SelectSeq(rows, LAMBDA r : sort_rank(r.document_type) > sort_rank(document_type))

\* the (type, source, required) lists of apply_standard_requirements
standard_requirements(client_type) ==
    IF client_type = "self_employed"
    THEN <<<<"1099-NEC", "All Clients", TRUE>>, <<"1099-MISC", "All Sources", FALSE>>,
           <<"Business Expense Receipts", "Various", TRUE>>,
           <<"Prior Year Tax Return", "IRS", TRUE>>>>
    ELSE IF client_type = "business"
    THEN <<<<"1099-NEC", "All Contractors", TRUE>>,
           <<"Business Expense Receipts", "Various", TRUE>>,
           <<"Prior Year Tax Return", "IRS", TRUE>>>>
    ELSE <<<<"W-2", "All Employers", TRUE>>, <<"1099-INT", "All Banks", FALSE>>,
           <<"1099-DIV", "All Investment Accounts", FALSE>>,
           <<"Prior Year Tax Return", "IRS", TRUE>>>>

RECURSIVE apply_standard_requirements(_, _, _)
\* the loop of apply_standard_requirements over what is left of the list
apply_standard_requirements(rows, tax_year, requirements) ==
    IF requirements = <<>> THEN rows
    ELSE apply_standard_requirements(
             add_document_requirement(rows, tax_year, Head(requirements)[1],
                                      Head(requirements)[2], Head(requirements)[3]),
             tax_year, Tail(requirements))

RECURSIVE process_documents(_, _, _, _)
\* the loops of lambda_handler over event['documents'] for add, remove and
\* update: the rows left and the number of documents processed
process_documents(rows, tax_year, operation, documents) ==
    IF documents = <<>> THEN [rows |-> rows, processed |-> 0]
    ELSE LET doc == Head(documents)
             doc_type == Get(doc, "document_type", "")
             updates == [k \in DOMAIN doc \cap {"source", "required", "received"}
                            |-> doc[k]]
             skipped == \/ doc_type = ""
                        \/ operation = "add" /\ ~validate_document_type(doc_type)
                        \/ operation = "update" /\ DOMAIN updates = {}
             after ==
                 IF skipped THEN rows
                 ELSE IF operation = "add"
                 THEN add_document_requirement(rows, tax_year, doc_type,
                                               Get(doc, "source", "Unknown"),
                                               Get(doc, "required", TRUE))
                 ELSE IF operation = "remove"
                 THEN SelectSeq(rows, LAMBDA r : r.document_type # doc_type)
                 ELSE update_item(rows, doc_type,
                                  [k \in DOMAIN updates \cup {"last_updated"} |->
                                      IF k = "last_updated" THEN Iso(now)
                                      ELSE updates[k]])
             rest == process_documents(after, tax_year, operation, Tail(documents))
         IN  [rows |-> rest.rows,
              processed |-> rest.processed + (IF skipped THEN 0 ELSE 1)]

\* lambda_handler of the requirement manager: its response and the rows of
\* the client it leaves
requirement_manager_handler(ev) ==
    LET client_id == Get(ev, "client_id", "")
        tax_year == Get(ev, "tax_year", 0)
        operation == Get(ev, "operation", "add")
        documents == Get(ev, "documents", <<>>)
        failed == [response |-> [success |-> FALSE, error_type |-> "ValueError"],
                   rows |-> rows_of(client_id)]
        standard == standard_requirements(Get(ev, "client_type", "individual"))
        done == IF operation = "apply_standard"
                THEN [rows |-> apply_standard_requirements(rows_of(client_id),
                                                           tax_year, standard),
                      processed |-> Len(standard)]
                ELSE process_documents(rows_of(client_id), tax_year, operation,
                                       documents)
    IN  IF client_id = "" \/ tax_year = 0 THEN failed
        ELSE IF get_item(client_id) = <<>> THEN failed
        ELSE IF operation \notin {"apply_standard", "add", "remove", "update"}
        THEN failed
        ELSE [response |->
                  [success |-> TRUE,
                   operation |-> operation,
                   documents_processed |-> done.processed,
                   current_requirements |->
                       SelectSeq(first_page(done.rows),
                                 LAMBDA r : "tax_year" \in DOMAIN r
                                            /\ r.tax_year = tax_year)],
              rows |-> done.rows]

RequirementDocuments ==
    {<<>>,
     <<[document_type |-> "W-2"]>>,
     <<[document_type |-> "1099-INT", source |-> "Bank", required |-> FALSE]>>,
     <<[document_type |-> "W-2", received |-> FALSE]>>,
     <<[document_type |-> "W_2!"], [document_type |-> "Schedule K-1"]>>,
     <<[source |-> "Bank"]>>}

RequirementEvents ==
    [client_id : {ClientNames[1], "client_unknown"},
     tax_year : {current_year},
     operation : {"add", "remove", "update", "replace"},
     documents : RequirementDocuments]
    \cup [client_id : {ClientNames[1]}, tax_year : {current_year},
          operation : {"apply_standard"},
          client_type : {"individual", "self_employed", "business"}]
    \cup [client_id : {ClientNames[1]}, tax_year : {current_year},
          documents : RequirementDocuments]
    \cup {[client_id |-> ClientNames[1]],
          [client_id |-> ClientNames[1], tax_year |-> current_year,
           operation |-> "apply_standard"]}

\* a received W-2 the client must bring, with or without a 1099-INT row
RequirementRows ==
    LET w2 == [document_type |-> "W-2", tax_year |-> current_year,
               source |-> "All Employers", required |-> TRUE, received |-> TRUE]
    IN  {<<w2>>}
        \cup {<<[document_type |-> "1099-INT", tax_year |-> current_year,
                 source |-> "All Banks", required |-> r, received |-> v], w2>> :
              r, v \in BOOLEAN}

InitRequirements ==
    /\ clients_table = <<UploadClient>>
    /\ documents_table \in [{ClientNames[1]} -> RequirementRows]
    /\ followup_table = NoTable
    /\ now = 0
    /\ event = None
    /\ response = None
    /\ doc_status = Unset
    /\ risk_in = Unset
    /\ risk_out = Unset
    /\ page_limit = MaxDocTypes + 2
    /\ unavailable = {}
    /\ clock_step = 0
    /\ followup_history = Unset
    /\ client_status = Unset
    /\ upload = Unset
    /\ classified_as = Unset
    /\ ServicesIdle

\* one invocation of the requirement manager
ManageRequirements ==
    \E ev \in RequirementEvents :
        LET result == requirement_manager_handler(ev)
            client_id == Get(ev, "client_id", "")
        IN  /\ event = None
            /\ event' = ev
            /\ response' = result.response
            /\ documents_table' =
                   [c \in DOMAIN documents_table |->
                       IF c = client_id THEN result.rows ELSE documents_table[c]]
            /\ UNCHANGED <<clients_table, followup_table, now, doc_status, risk_in,
                           risk_out, page_limit, unavailable, clock_step,
                           followup_history, client_status, upload,
                           classified_as, service_vars>>

NextRequirements == ManageRequirements \/ GetClientDocuments

SpecRequirements == InitRequirements /\ [][NextRequirements]_vars

-----------------------------------------------------------------------------
(* Properties of get_client_documents (SpecDocs) *)

InputRows == documents_query(ClientNames[1])
IsRequired(d) == "required" \in DOMAIN d /\ d["required"]
IsReceived(d) == "received" \in DOMAIN d /\ d["received"]
RequiredIdx == {i \in 1..Len(InputRows) : IsRequired(InputRows[i])}
ReceivedIdx == {i \in RequiredIdx : IsReceived(InputRows[i])}
MissingIdx == RequiredIdx \ ReceivedIdx
\* the j-th smallest index of a set of indices
NthOf(idx, j) == CHOOSE i \in idx : Cardinality({k \in idx : k <= i}) = j

\* C1: whenever no row of the client has required = true (no rows at all
\* included), get_client_documents yields completion_percentage = 100 and
\* missing_documents = [].
C1_ZeroRequiredIsComplete ==
    (doc_status # Unset /\ RequiredIdx = {})
        => /\ doc_status.completion_percentage = 100
           /\ doc_status.missing_documents = <<>>

\* C5: completion_percentage lies in 0..100, it is 100 exactly when every
\* required row is received, and the rows with required = false do not
\* change the result.
C5_PercentageRangeAndComplete ==
    doc_status # Unset
        => /\ doc_status.completion_percentage \in 0..100
           /\ doc_status.completion_percentage = 100 <=> MissingIdx = {}
           /\ doc_status = doc_status_of(SelectSeq(InputRows, IsRequired))

\* round(x) of Python for x = num / den >= 0: to the nearest integer, a tie
\* to the even one
RoundHalfEven(num, den) ==
    LET q == num \div den
        r == num % den
    IN  IF 2 * r < den THEN q
        ELSE IF 2 * r > den THEN q + 1
        ELSE IF q % 2 = 0 THEN q ELSE q + 1

\* C6 as stated: with total_required > 0 the percentage is
\* total_received / total_required * 100 rounded to the nearest integer,
\* capped at 100 (2 of 3 gives 67).
C6_RoundedPercentage ==
    (doc_status # Unset /\ RequiredIdx # {})
        => doc_status.completion_percentage =
              Min(RoundHalfEven(100 * Cardinality(ReceivedIdx),
                                Cardinality(RequiredIdx)), 100)

\* C6 as amended: with total_required > 0 the percentage is
\* total_received / total_required * 100 truncated to an integer, never
\* rounded up, and at most 100 (2 of 3 gives 66).
C6_TruncatedPercentage ==
    (doc_status # Unset /\ RequiredIdx # {})
        => LET pct == doc_status.completion_percentage
               n == Cardinality(RequiredIdx)
               k == Cardinality(ReceivedIdx)
           IN  /\ pct * n <= 100 * k
               /\ 100 * k < (pct + 1) * n
               /\ pct <= 100

C6_Witness ==
    /\ doc_status # Unset
    /\ Cardinality(RequiredIdx) = 3
    /\ Cardinality(ReceivedIdx) = 2
    /\ doc_status.completion_percentage = 66

\* C7: total_required counts the rows with required = true, total_received
\* those of them with received = true, and missing_documents lists the
\* document_type of exactly the required rows not received, in the order of
\* the rows; 1099-INT required and not received with W-2 required and
\* received gives 50 and [1099-INT].
C7_CountsAndMissing ==
    doc_status # Unset
        => /\ doc_status.total_required = Cardinality(RequiredIdx)
           /\ doc_status.total_received = Cardinality(ReceivedIdx)
           /\ Len(doc_status.missing_documents) = Cardinality(MissingIdx)
           /\ \A j \in 1..Cardinality(MissingIdx) :
                 doc_status.missing_documents[j] =
                     InputRows[NthOf(MissingIdx, j)]["document_type"]
           /\ InputRows = <<[document_type |-> "1099-INT", required |-> TRUE,
                             received |-> FALSE],
                            [document_type |-> "W-2", required |-> TRUE,
                             received |-> TRUE]>>
                 => /\ doc_status.completion_percentage = 50
                    /\ doc_status.missing_documents = <<"1099-INT">>

C7_Witness ==
    /\ doc_status # Unset
    /\ InputRows = <<[document_type |-> "1099-INT", required |-> TRUE,
                      received |-> FALSE],
                     [document_type |-> "W-2", required |-> TRUE,
                      received |-> TRUE]>>
    /\ doc_status.completion_percentage = 50
    /\ doc_status.missing_documents = <<"1099-INT">>

-----------------------------------------------------------------------------
(* Properties of the risk classifier (SpecRisk) *)

Threshold == Get(risk_in.settings, "escalation_threshold", 3)
EscDays == Get(risk_in.settings, "escalation_days", 2)
\* the last follow-up date is absent or a timestamp
DateIsTimestampOrNone == risk_in.last_followup_date # Malformed
DateIsSet == risk_in.last_followup_date \notin {None, Malformed}
\* ticks since the last follow-up
Elapsed == now - risk_in.last_followup_date.t
\* followup_count >= escalation_threshold, the date is set and at least
\* escalation_days whole days have passed since it
EscalatedCondition ==
    /\ risk_in.followup_count >= Threshold
    /\ DateIsSet
    /\ Elapsed >= EscDays * TicksPerDay

\* C2: calculate_risk_status returns 'complete' whenever completion_percentage
\* is 100, whatever the follow-up count, the last follow-up date and the
\* thresholds.
C2_CompleteOverridesRisk ==
    (risk_out.status # "" /\ risk_in.completion_pct = 100)
        => risk_out.status = "complete"

C2_Witness ==
    /\ risk_out.status = "complete"
    /\ risk_in.followup_count >= Threshold
    /\ DateIsSet
    /\ Elapsed >= EscDays * TicksPerDay
    /\ risk_in.followup_count = MaxCount

C8_DaysUntilEscalation ==
    (risk_out.days # Unset /\ DateIsTimestampOrNone)
        => /\ risk_in.followup_count < Threshold => risk_out.days = None
           /\ (risk_in.followup_count >= Threshold /\ ~DateIsSet)
                 => risk_out.days = Some(0)
           /\ (risk_in.followup_count >= Threshold /\ DateIsSet)
                 => risk_out.days = Some(Max(0, EscDays - Elapsed \div TicksPerDay))

-----------------------------------------------------------------------------
(* Properties of the roster (Spec) *)

Answered == event # None
Data(resp) == IF "body" \in DOMAIN resp THEN resp.body ELSE resp.content
IsSuccess(resp) == "clients" \in DOMAIN Data(resp)
IsError(resp) == "error" \in DOMAIN Data(resp)
\* the same request with the status filter set to all
Unfiltered(ev) ==
    [k \in DOMAIN ev \cup {"filter"} |-> IF k = "filter" THEN "all" ELSE ev[k]]
\* where the client store holds a client
StorePosition(client_id) ==
    CHOOSE i \in 1..Len(clients_table) : clients_table[i].client_id = client_id
InStore(client_id) ==
    \E i \in 1..Len(clients_table) : clients_table[i].client_id = client_id
Rank(status) ==
    CASE status = "escalated" -> 1
      [] status = "at_risk" -> 2
      [] status = "incomplete" -> 3
      [] status = "complete" -> 4

\* C4: a status filter never changes the summary: the summary returned with
\* filter = X equals the one returned for the same request with filter = all.
C4_FilterKeepsSummary ==
    (Answered /\ IsSuccess(response))
        => Data(response).summary
              = Data(lambda_handler(Unfiltered(event), now)).summary

\* C9: a single-client request for an identifier the client store does not
\* hold ends in the client-not-found error, never in a success response.
C9_UnknownClientIsError ==
    (Answered /\ event.accountant_id # "" /\ "client_id" \in DOMAIN event
        /\ event.client_id # "all" /\ ~InStore(event.client_id))
        => /\ IsError(response)
           /\ ~IsSuccess(response)
           /\ Data(response).error = "Client not found"
           /\ "statusCode" \in DOMAIN response => response.statusCode # 200

C9_Witness ==
    /\ Answered
    /\ event.accountant_id = "acct_A"
    /\ "client_id" \in DOMAIN event
    /\ event.client_id = "client_unknown"
    /\ ~InStore(event.client_id)
    /\ IsError(response)
    /\ Data(response).error = "Client not found"

\* C10: the clients of a response are ordered escalated, at_risk, incomplete,
\* complete, and clients of one state keep the order of the client store.
C10_RosterOrder ==
    (Answered /\ IsSuccess(response))
        => LET cs == Data(response).clients
           IN  \A i, j \in 1..Len(cs) :
                  i < j =>
                     \/ Rank(cs[i].status) < Rank(cs[j].status)
                     \/ /\ cs[i].status = cs[j].status
                        /\ StorePosition(cs[i].client_id)
                              < StorePosition(cs[j].client_id)

C10_Witness ==
    /\ Answered
    /\ IsSuccess(response)
    /\ LET cs == Data(response).clients
       IN  /\ Len(cs) = 3
           /\ cs[1].status = "escalated" /\ cs[1].client_id = ClientNames[2]
           /\ cs[2].status = "complete" /\ cs[2].client_id = ClientNames[1]
           /\ cs[3].status = "complete" /\ cs[3].client_id = ClientNames[3]

-----------------------------------------------------------------------------
(* Properties of one client's status record (SpecClient) *)

\* build_client_status has returned a record
Built == client_status # Unset /\ ~IsRaise(client_status)
\* every row the store holds for the client, over all pages
StoredRows == documents_table[TheClient.client_id]
StoredRequired == SelectSeq(StoredRows, IsRequired)
StoredReceived == SelectSeq(StoredRequired, IsReceived)
StoredMissing == SelectSeq(StoredRequired, LAMBDA d : ~IsReceived(d))
\* the required_documents entries with required = true
ListedRequired == SelectSeq(client_status.required_documents, LAMBDA x : x.required)

\* C11: when the store returns the client's rows in several pages,
\* total_required, total_received, completion_percentage and
\* missing_documents of the record are computed over the rows of all pages,
\* and so agree with the required_documents list of the same record.
C11_TotalsOverAllPages ==
    (Built /\ unavailable = {})
        => /\ client_status.total_required = Len(StoredRequired)
           /\ client_status.total_received = Len(StoredReceived)
           /\ client_status.completion_percentage =
                  capped_completion_pct(Len(StoredReceived), Len(StoredRequired))
           /\ client_status.missing_documents =
                  [i \in 1..Len(StoredMissing) |-> StoredMissing[i]["document_type"]]
           /\ client_status.total_required = Len(ListedRequired)
           /\ client_status.total_received =
                  Len(SelectSeq(ListedRequired, LAMBDA x : x.received))

\* the newest event of the client's log carries an unreadable sent_date
UnreadableDate ==
    LET log == followup_table[TheClient.client_id]
    IN  log # <<>> /\ Get(log[Len(log)], "sent_date", None) = Malformed

ReminderOn(n, date) ==
    [text |-> "Send reminder #n on date", n |-> n,
     date |-> [tag |-> "date", day |-> date.t \div TicksPerDay]]

StoredLog == followup_table[TheClient.client_id]

\* C16: get_followup_history reads at most the ten most recent events,
\* newest first; followup_count is the number of events returned, never more
\* than 10; last follow-up number, last_followup_date, next_followup_date and
\* response_received are those of the most recent event; with no event
\* followup_count is 0 and every other field, response_received included, is
\* present and null or false.
C16_FollowupHistory ==
    (followup_history # Unset /\ "followups" \notin unavailable)
        => /\ followup_history.followup_count = Min(Len(StoredLog), 10)
           /\ StoredLog # <<>>
                 => LET newest == StoredLog[Len(StoredLog)]
                    IN  /\ followup_history.last_followup
                              = Get(newest, "followup_number", Some(0))
                        /\ followup_history.last_followup_date
                              = Get(newest, "sent_date", None)
                        /\ followup_history.next_followup_date
                              = Get(newest, "next_followup_date", None)
                        /\ followup_history.response_received
                              = Get(newest, "response_received", FALSE)
           /\ StoredLog = <<>>
                 => /\ DOMAIN followup_history
                          = {"followup_count", "last_followup", "last_followup_date",
                             "next_followup_date", "response_received"}
                    /\ followup_history.last_followup = None
                    /\ followup_history.last_followup_date = None
                    /\ followup_history.next_followup_date = None
                    /\ followup_history.response_received \in {FALSE}

\* the state and the countdown the two functions give for the record's
\* percentage, count and last date at the one clock reading t
PairAt(t) ==
    LET settings == [escalation_threshold |-> 3, escalation_days |-> 2]
    IN  <<calculate_risk_status(client_status.completion_percentage,
                                client_status.followup_count,
                                client_status.last_followup_date, settings, t),
          calculate_days_until_escalation(client_status.followup_count,
                                          client_status.last_followup_date,
                                          settings, t)>>

\* C20: within one status computation the state and days_until_escalation
\* are derived from the same 'now': the pair of the record is the pair the
\* classification gives for the record's percentage, count, last date and
\* thresholds at the clock reading of the computation, so that equal inputs
\* and an equal 'now' give equal pairs.
C20_PairFromOneNow ==
    Built
        => <<client_status.status, client_status.days_until_escalation>>
              = PairAt(now)

-----------------------------------------------------------------------------
(* Properties of the roster with an unreadable date (SpecFaults) *)

RosterRequest ==
    /\ Answered
    /\ unavailable = {}
    /\ event.accountant_id # ""
    /\ Get(event, "client_id", "all") = "all"
    /\ Get(event, "filter", "all") \in StatusFilters
\* the stored clients of the requesting accountant whose own status computes
SoundClients ==
    {i \in 1..Len(clients_table) :
        /\ clients_table[i].accountant_id = event.accountant_id
        /\ ~IsRaise(build_client_status(
                        clients_table[i],
                        [escalation_threshold |-> 3, escalation_days |-> 2], now))}

\* C12: in all-clients mode a failure of one client's status computation
\* caused by that client's data never makes the roster request an error
\* response; the response still holds the records of the accountant's other
\* clients.
C12_ClientFailureContained ==
    RosterRequest
        => /\ IsSuccess(response)
           /\ ~IsError(response)
           /\ Get(event, "filter", "all") = "all"
                 => \A i \in SoundClients :
                       \E j \in 1..Len(Data(response).clients) :
                          Data(response).clients[j].client_id
                              = clients_table[i].client_id

-----------------------------------------------------------------------------
(* The classifier on a missing or unreadable date (SpecRisk) *)

\* C13: below 100 percent, with the count at or above the threshold and the
\* last follow-up date missing or not a parseable timestamp, neither
\* calculate_risk_status nor calculate_days_until_escalation raises, and
\* days_until_escalation is 0.
C13_NoDateNeverRaises ==
    (risk_in.completion_pct < 100 /\ risk_in.followup_count >= Threshold
        /\ ~DateIsSet)
        => /\ risk_out.status # "" => risk_out.status \in {"at_risk", "escalated"}
           /\ risk_out.days # Unset => risk_out.days = Some(0)

-----------------------------------------------------------------------------
(* More properties of the roster (Spec) *)

\* C17: a request whose filter is none of all, complete, incomplete, at_risk,
\* escalated is rejected with a validation error before any status is
\* computed; it never yields a success response.
C17_UnknownFilterRejected ==
    (Answered /\ "filter" \in DOMAIN event /\ event.filter \notin StatusFilters)
        => /\ IsError(response)
           /\ ~IsSuccess(response)

-----------------------------------------------------------------------------
(* Properties of classify_document (SpecClassify) *)

\* the table entries one of whose keywords occurs in the lower-cased name
MatchingEntries ==
    {i \in 1..Len(DOCUMENT_PATTERNS) :
        \E j \in 1..Len(DOCUMENT_PATTERNS[i].patterns) :
            contains(lower(upload.filename), DOCUMENT_PATTERNS[i].patterns[j])}

\* C18: classify_document returns metadata['document-type'] as it is whenever
\* the key is present, whatever the file name; otherwise the label of the
\* first table entry one of whose keywords is a substring of the lower-cased
\* file name, so that the case of the file name never changes the result and
\* the earliest of several matching labels wins; otherwise 'Unknown'.
C18_Classification ==
    classified_as # Unset
        => LET got == classified_as.returned
               metadata == upload.metadata
           IN  /\ "document-type" \in DOMAIN metadata
                     => got = metadata["document-type"]
               /\ "document-type" \notin DOMAIN metadata
                     => /\ MatchingEntries = {} => got = "Unknown"
                        /\ MatchingEntries # {}
                              => \E i \in MatchingEntries :
                                    /\ got = DOCUMENT_PATTERNS[i].doc_type
                                    /\ \A k \in MatchingEntries : i <= k
                        /\ got = classify_document(upper(upload.filename), metadata)
                        /\ got = classify_document(lower(upload.filename), metadata)

C18_Witness ==
    /\ classified_as # Unset
    /\ "document-type" \notin DOMAIN upload.metadata
    /\ upload.filename = "1099-B_1099-r.pdf"
    /\ MatchingEntries = {6, 7}
    /\ classified_as.returned = "1099-B"

\* the records of a response that carry a given status
WithStatus(cs, status) == {i \in 1..Len(cs) : cs[i].status = status}

\* C19: in every roster response each client record carries one status out
\* of complete, incomplete, at_risk, escalated, and the summary partitions
\* the clients: complete + incomplete + at_risk + escalated = total_clients.
C19_SummaryPartition ==
    (Answered /\ IsSuccess(response))
        => LET cs == Data(response).clients
               summary == Data(response).summary
           IN  /\ \A i \in 1..Len(cs) :
                     cs[i].status \in {"complete", "incomplete", "at_risk", "escalated"}
               /\ summary.total_clients = Len(cs)
               /\ summary.complete = Cardinality(WithStatus(cs, "complete"))
               /\ summary.incomplete = Cardinality(WithStatus(cs, "incomplete"))
               /\ summary.at_risk = Cardinality(WithStatus(cs, "at_risk"))
               /\ summary.escalated = Cardinality(WithStatus(cs, "escalated"))
               /\ summary.complete + summary.incomplete + summary.at_risk
                     + summary.escalated = summary.total_clients

C19_Witness ==
    /\ Answered
    /\ IsSuccess(response)
    /\ Data(response).summary
          = [total_clients |-> 3, complete |-> 0, incomplete |-> 1,
             at_risk |-> 1, escalated |-> 1]

-----------------------------------------------------------------------------
(* Properties of the follow-up log the email sender writes (SpecSender) *)

SenderLog == followup_table[ClientNames[1]]

\* C21: the follow-up log is append-only: every reminder the email sender
\* sent successfully added one event for the client, and no event was
\* overwritten or removed, also when two reminders of the client are sent
\* concurrently or within the same second.
C21_LogAppendOnly ==
    /\ Len(SenderLog) = Len(sends)
    /\ \A i \in 1..Len(sends) : \E j \in 1..Len(SenderLog) : SenderLog[j] = sends[i]

\* C22: after any sequence of reminders sent through the email sender the
\* events of the client carry the numbers 1, 2, 3, ... in send order, so the
\* number of events equals the highest number.
C22_SequenceNumbers ==
    /\ \A i \in 1..Len(sends) : sends[i].followup_number = Some(i)
    /\ \A j \in 1..Len(SenderLog) : SenderLog[j].followup_number = Some(j)

-----------------------------------------------------------------------------
(* Properties of the error responses (SpecFaults) *)

\* the messages the handler itself raises (lines 303, 326, 340)
HandlerMessages ==
    {"Unable to determine accountant ID from authentication token",
     "Missing required parameter: accountant_id",
     "Client not found"}
\* the error kind of the same request without an accountant identifier
ValidationKind ==
    Data(lambda_handler([event EXCEPT !.accountant_id = ""], now)).error_type
RequestedClient == Get(event, "client_id", "all")

\* C23: an error response is a structured result whose error kind tells
\* 'client not found' from 'upstream store unavailable' from 'validation
\* error' (a missing accountant identifier and an unknown client identifier
\* yield different kinds), and it never carries the raw message of an
\* internal exception.
C23_ErrorKinds ==
    (Answered /\ IsError(response))
        => /\ DOMAIN Data(response) = {"error", "error_type"}
           /\ (event.accountant_id # "" /\ unavailable = {}
                 /\ RequestedClient # "all" /\ ~InStore(RequestedClient))
                 => Data(response).error_type # ValidationKind
           /\ (event.accountant_id # "" /\ "clients" \in unavailable)
                 => Data(response).error_type # ValidationKind
           /\ Data(response).error \in HandlerMessages

-----------------------------------------------------------------------------
(* Properties of the batch operations (SpecBatch) *)

BatchDone == batch # Unset /\ batch.response # None

BatchValid ==
    /\ batch # Unset
    /\ batch.request.accountant_id # ""
    /\ batch.request.operation \in PooledOperations
    /\ batch.request.client_ids # <<>>

\* how many entries of a sequence satisfy a test
CountOf(seq, Test(_)) == Cardinality({i \in 1..Len(seq) : Test(seq[i])})

\* the cause a worker had to fail, from the tables and the fault it met
FailureCause(future) ==
    LET stored == get_item(future.client_id)
        no_email == stored = <<>> \/ "email" \notin DOMAIN stored[1]
                    \/ future.fault = "get_item"
        rows == IF future.client_id \in DOMAIN documents_table
                THEN documents_table[future.client_id] ELSE <<>>
        nothing_missing == \A j \in 1..Len(rows) : rows[j].received
    IN  IF batch.request.operation = "send_reminders"
        THEN no_email \/ nothing_missing \/ future.fault \in {"query", "send_email"}
        ELSE no_email \/ future.fault \in {"update_item", "send_email"}

-----------------------------------------------------------------------------
(* Tenant isolation of the roster (Spec) *)

\* the accountant a stored client belongs to
OwnerOf(client_id) == clients_table[StorePosition(client_id)].accountant_id

\* C25: a roster response produced for an accountant lists only clients of
\* that accountant, whether all clients or one client was requested
C25_TenantIsolation ==
    (Answered /\ IsSuccess(response)) =>
        \A i \in 1..Len(Data(response).clients) :
            OwnerOf(Data(response).clients[i].client_id) = event.accountant_id

-----------------------------------------------------------------------------
(* Frame of the upload-link sender (SpecLink) *)

\* the tracker read the client and an upload link was sent to the client
LinkSent ==
    /\ client_status # Unset
    /\ event # None
    /\ response.success

\* C26: sending an upload link leaves what the status tracker reads of the
\* client's reminder history unchanged: the follow-up history and the status
\* record read before the link was sent are those a reading now returns
C26_LinkLeavesHistory ==
    LinkSent =>
        /\ get_followup_history(ClientNames[1]) = followup_history
        /\ build_client_status(clients_table[1],
                               [escalation_threshold |-> 3, escalation_days |-> 2],
                               now).status = client_status.status

-----------------------------------------------------------------------------
(* Uploads and the document checker (SpecUpload) *)

\* the file of the granted URL is in the bucket and the processor handled it
UploadProcessed ==
    /\ upload # Unset
    /\ upload.s3_key \in DOMAIN bucket
    /\ event = None

\* the requirement rows the upload was for: the client's required rows of the
\* uploaded document type and tax year
UploadedRequirements ==
    {i \in 1..Len(rows_of(upload.Metadata["client-id"])) :
        LET row == rows_of(upload.Metadata["client-id"])[i]
        IN  /\ row.document_type = upload.Metadata["document-type"]
            /\ Get(row, "required", FALSE)
            /\ "tax_year" \in DOMAIN row
            /\ ToString(row.tax_year) = upload.Metadata["tax-year"]}

\* the document checker ran for the client and tax year of the upload
CheckerRan ==
    /\ doc_status # Unset
    /\ "tax_year" \in DOMAIN doc_status
    /\ doc_status.client_id = upload.Metadata["client-id"]
    /\ ToString(doc_status.tax_year) = upload.Metadata["tax-year"]

\* C27: once the processor has marked a required document received for a
\* file uploaded with the upload manager's URL, the document checker run for
\* that client and tax year leaves the row received while the file is in the
\* bucket
C27_CheckerKeepsReceived ==
    (UploadProcessed /\ CheckerRan) =>
        \A i \in UploadedRequirements :
            rows_of(upload.Metadata["client-id"])[i].received

-----------------------------------------------------------------------------
(* Frame of the requirement manager (SpecRequirements) *)

\* the requirement manager ran 'add' or 'apply_standard' for the client
RequirementsAdded ==
    /\ event # None
    /\ Get(event, "operation", "add") \in {"add", "apply_standard"}
    /\ response.success

\* C28: adding requirements leaves a row that exists and is marked received
\* as received, the W-2 row every client starts with included, and a
\* completion percentage read before is not above the one read now
C28_AddKeepsReceived ==
    RequirementsAdded =>
        /\ \A i \in 1..Len(rows_of(ClientNames[1])) :
               rows_of(ClientNames[1])[i].document_type = "W-2"
                   => rows_of(ClientNames[1])[i].received
        /\ doc_status # Unset =>
               get_client_documents(ClientNames[1]).completion_percentage
                   >= doc_status.completion_percentage

-----------------------------------------------------------------------------
(* The three completion computations (SpecDocs) *)

\* the received documents of the rows: one per row flagged received
ReceivedDocuments ==
    {[document_type |-> InputRows[i].document_type] :
        i \in {k \in 1..Len(InputRows) : IsReceived(InputRows[k])}}

\* C29: on the same requirement rows the three completion computations
\* return the same integer, the empty required set included: that of
\* get_client_documents, that of the document processor and that of the
\* document checker
C29_CompletionsAgree ==
    doc_status # Unset =>
        /\ doc_status.completion_percentage
               = processor_completion_percentage(InputRows)
        /\ doc_status.completion_percentage
               = checker_completion_percentage(SelectSeq(InputRows, IsRequired),
                                               ReceivedDocuments)

-----------------------------------------------------------------------------
(* State and countdown of a status record (SpecClient) *)

\* the record is of an incomplete client at or above the escalation threshold
\* of lambda_handler's settings, with a last follow-up date recorded
CountdownRuns ==
    /\ Built
    /\ client_status.completion_percentage < 100
    /\ client_status.followup_count >= 3
    /\ client_status.last_followup_date # None
    /\ client_status.last_followup_date # Malformed

\* C30: in such a record the status is 'escalated' exactly when
\* days_until_escalation is 0, so an at_risk client at or above the threshold
\* shows a countdown above 0
C30_EscalatedIffZero ==
    CountdownRuns =>
        (client_status.status = "escalated"
            <=> client_status.days_until_escalation = Some(0))
====
